---- MODULE Spec2Model ----
(***************************************************************************)
(* Model of the template front end of django-rusty-templates:             *)
(*   src/src/lex.rs    Lexer (structural tokens), VariableLexer            *)
(*   src/src/parse.rs  Parser, Filter::new, ArgumentToken::parse           *)
(* A string is a sequence of one-character strings; every slice is        *)
(* 0-based and half-open as in Rust, and a slice whose bounds are          *)
(* inverted or out of range is an abort (panic) of the call.               *)
(***************************************************************************)
EXTENDS Integers, Sequences, FiniteSets, TLC

VARIABLES template, rest, byte, verbatim, tokens, status, nodes, result,
          vcontent, vlexer, vitems, vstatus,
          context, rendered, rstatus

vars == <<template, rest, byte, verbatim, tokens, status, nodes, result,
          vcontent, vlexer, vitems, vstatus, context, rendered, rstatus>>

(***************************************************************************)
(* Bounds of the explored inputs.                                          *)
(***************************************************************************)
MaxLen == 5
MaxChunks == 4
MaxFilters == 2
MaxConstructs == 2
MaxVarLen == 4
MaxArgLen == 4

(***************************************************************************)
(* Program constants.                                                      *)
(***************************************************************************)
START_TAG_LEN == 2
END_TAG_LEN == 2

(***************************************************************************)
(* String primitives of the Rust standard library, as the code uses them.  *)
(***************************************************************************)
NoneIdx == 0 - 1

Min(S) == CHOOSE m \in S : \A n \in S : m <= n

\* str::find(pat): byte index of the first occurrence, NoneIdx for None.
Find(s, pat) ==
    LET idx == {i \in 0..(Len(s) - Len(pat)) : SubSeq(s, i + 1, i + Len(pat)) = pat}
    IN IF idx = {} THEN NoneIdx ELSE Min(idx)

\* &s[a..b] is defined only for a <= b <= len.
SliceOk(s, a, b) == 0 <= a /\ a <= b /\ b <= Len(s)

Slice(s, a, b) == SubSeq(s, a + 1, b)

SliceFrom(s, a) == SubSeq(s, a + 1, Len(s))

IsWhitespace(c) == c = " "

RECURSIVE TrimStart(_)
TrimStart(s) ==
    IF s # <<>> /\ IsWhitespace(Head(s)) THEN TrimStart(Tail(s)) ELSE s

RECURSIVE TrimEnd(_)
TrimEnd(s) ==
    IF s # <<>> /\ IsWhitespace(s[Len(s)]) THEN TrimEnd(SubSeq(s, 1, Len(s) - 1)) ELSE s

Trim(s) == TrimEnd(TrimStart(s))

StartsWith(s, p) == Len(s) >= Len(p) /\ SubSeq(s, 1, Len(p)) = p

Last(s) == s[Len(s)]

(***************************************************************************)
(* Delimiters and the verbatim keyword.                                    *)
(***************************************************************************)
OpenVariable == <<"{", "{">>
OpenTag == <<"{", "%">>
OpenComment == <<"{", "#">>
CloseVariable == <<"}", "}">>
CloseTag == <<"%", "}">>
CloseComment == <<"#", "}">>
VerbatimWord == <<"v", "e", "r", "b", "a", "t", "i", "m">>

\* EndTag -> closing delimiter (lex_tag's end_str).
EndStr(end_tag) ==
    CASE end_tag = "Variable" -> CloseVariable
      [] end_tag = "Tag" -> CloseTag
      [] end_tag = "Comment" -> CloseComment

(***************************************************************************)
(* Lexer: the struct is the record [rest, byte, verbatim]; verbatim is     *)
(* Option<&str>.  Every method returns the struct after the call, the      *)
(* token it returns (a sequence of zero or one token) and whether the call *)
(* aborted.                                                                *)
(***************************************************************************)
NoVerbatim == [some |-> FALSE, v |-> <<>>]
SomeVerbatim(v) == [some |-> TRUE, v |-> v]

Token(type, content, start, end) ==
    [type |-> type, content |-> content, at |-> <<start, end>>]

Ret(l, tok) == [lexer |-> l, tok |-> <<tok>>, panic |-> FALSE]
Abort(l) == [lexer |-> l, tok |-> <<>>, panic |-> TRUE]

LexerNew(t) == [rest |-> t, byte |-> 0, verbatim |-> NoVerbatim]

lex_text(l) ==
    LET next_tag == Find(l.rest, OpenTag)
        next_variable == Find(l.rest, OpenVariable)
        next_comment == Find(l.rest, OpenComment)
        found == {next_tag, next_variable, next_comment} \ {NoneIdx}
        start == l.byte
        text == IF found = {} THEN l.rest ELSE Slice(l.rest, 0, Min(found))
        rest1 == IF found = {} THEN <<>> ELSE SliceFrom(l.rest, Min(found))
        byte1 == l.byte + Len(text)
    IN Ret([l EXCEPT !.rest = rest1, !.byte = byte1],
           Token("Text", text, start, byte1))

lex_text_to_end(l) ==
    LET start == l.byte
        text == l.rest
        byte1 == l.byte + Len(text)
    IN Ret([l EXCEPT !.rest = <<>>, !.byte = byte1],
           Token("Text", text, start, byte1))

\* lex_tag counting one delimiter only (lex.rs:103 with + 2).
lex_tag_one_delimiter(l, end_tag) ==
    LET start == l.byte
        n == Find(l.rest, EndStr(end_tag))
    IN IF n = NoneIdx
       THEN LET byte1 == l.byte + Len(l.rest)
            IN Ret([l EXCEPT !.rest = <<>>, !.byte = byte1],
                   Token("Text", l.rest, start, byte1))
       ELSE IF ~SliceOk(l.rest, START_TAG_LEN, n)
       THEN Abort(l)
       ELSE LET tag == Slice(l.rest, START_TAG_LEN, n)
                byte1 == l.byte + Len(tag) + 2
            IN Ret([l EXCEPT !.rest = SliceFrom(l.rest, n + END_TAG_LEN), !.byte = byte1],
                   Token(end_tag, tag, start, byte1))

\* lex_tag turning only the unmatched opener into Text (lex.rs:90-96).
lex_tag_opener_only(l, end_tag) ==
    LET start == l.byte
        n == Find(l.rest, EndStr(end_tag))
    IN IF n = NoneIdx
       THEN LET byte1 == l.byte + START_TAG_LEN
            IN Ret([l EXCEPT !.rest = SliceFrom(l.rest, START_TAG_LEN), !.byte = byte1],
                   Token("Text", Slice(l.rest, 0, START_TAG_LEN), start, byte1))
       ELSE IF ~SliceOk(l.rest, START_TAG_LEN, n)
       THEN Abort(l)
       ELSE LET tag == Slice(l.rest, START_TAG_LEN, n)
                byte1 == l.byte + Len(tag) + 4
            IN Ret([l EXCEPT !.rest = SliceFrom(l.rest, n + END_TAG_LEN), !.byte = byte1],
                   Token(end_tag, tag, start, byte1))

lex_tag(l, end_tag) ==
    LET start == l.byte
        n == Find(l.rest, EndStr(end_tag))
    IN IF n = NoneIdx
       THEN LET byte1 == l.byte + Len(l.rest)
            IN Ret([l EXCEPT !.rest = <<>>, !.byte = byte1],
                   Token("Text", l.rest, start, byte1))
       ELSE IF ~SliceOk(l.rest, START_TAG_LEN, n)
       THEN Abort(l)
       ELSE LET tag == Slice(l.rest, START_TAG_LEN, n)
                byte1 == l.byte + Len(tag) + 4
            IN Ret([l EXCEPT !.rest = SliceFrom(l.rest, n + END_TAG_LEN), !.byte = byte1],
                   Token(end_tag, tag, start, byte1))

\* The closer test accepting any prefix of the identifier.
IsClosingTag_prefix(inner, v) == Len(inner) >= 3 /\ StartsWith(v, SliceFrom(inner, 3))

\* The closer test that also wants the three leading characters to be "end".
IsClosingTag_end_only(inner, v) ==
    Len(inner) >= 3 /\ Slice(inner, 0, 3) = <<"e", "n", "d">> /\ SliceFrom(inner, 3) = v

\* The test lex_verbatim applies to a candidate closing tag (lex.rs:131).
IsClosingTag(inner, v) == Len(inner) >= 3 /\ SliceFrom(inner, 3) = v

\* The loop of lex_verbatim: rest and index are its two locals.
RECURSIVE lex_verbatim_loop(_, _, _, _)

\* The loop emitting the body Text even when it is empty (lex.rs:137 dropped).
lex_verbatim_loop_empty_text(l, v, lrest, index) ==
    LET start == l.byte
        start_tag == Find(lrest, OpenTag)
    IN IF start_tag = NoneIdx THEN lex_text_to_end(l)
       ELSE LET rest1 == SliceFrom(lrest, start_tag)
                end_tag == Find(rest1, CloseTag)
            IN IF end_tag = NoneIdx THEN lex_text_to_end(l)
               ELSE IF ~SliceOk(rest1, 2, end_tag) THEN Abort(l)
               ELSE LET inner == Trim(Slice(rest1, 2, end_tag))
                    IN IF ~IsClosingTag(inner, v)
                       THEN lex_verbatim_loop(l, v, SliceFrom(rest1, end_tag + 2),
                                              index + start_tag + end_tag + 2)
                       ELSE LET index1 == index + start_tag
                                byte1 == l.byte + index1
                            IN Ret([l EXCEPT !.rest = SliceFrom(l.rest, index1), !.byte = byte1],
                                   Token("Text", Slice(l.rest, 0, index1), start, byte1))

lex_verbatim_loop(l, v, lrest, index) ==
    LET start == l.byte
        start_tag == Find(lrest, OpenTag)
    IN IF start_tag = NoneIdx THEN lex_text_to_end(l)
       ELSE LET rest1 == SliceFrom(lrest, start_tag)
                end_tag == Find(rest1, CloseTag)
            IN IF end_tag = NoneIdx THEN lex_text_to_end(l)
               ELSE IF ~SliceOk(rest1, 2, end_tag) THEN Abort(l)
               ELSE LET inner == Trim(Slice(rest1, 2, end_tag))
                    IN IF ~IsClosingTag(inner, v)
                       THEN lex_verbatim_loop(l, v, SliceFrom(rest1, end_tag + 2),
                                              index + start_tag + end_tag + 2)
                       ELSE LET index1 == index + start_tag
                                text == Slice(l.rest, 0, index1)
                            IN IF text = <<>>
                               THEN LET tag == Slice(l.rest, 2, end_tag)
                                        byte1 == l.byte + Len(tag) + 4
                                    IN Ret([l EXCEPT !.rest = SliceFrom(l.rest, Len(tag) + 4),
                                                     !.byte = byte1],
                                           Token("Tag", tag, start, byte1))
                               ELSE LET byte1 == l.byte + index1
                                    IN Ret([l EXCEPT !.rest = SliceFrom(l.rest, index1),
                                                     !.byte = byte1],
                                           Token("Text", text, start, byte1))

\* lex_verbatim without the reset of self.verbatim (lex.rs:114).
lex_verbatim_no_reset(l, v) ==
    lex_verbatim_loop(l, Trim(v), l.rest, 0)

lex_verbatim(l, v) ==
    lex_verbatim_loop([l EXCEPT !.verbatim = NoVerbatim], Trim(v), l.rest, 0)

\* The test next() applies to the Tag token lex_tag returned.
IsVerbatimOpener(content) ==
    LET v == Trim(content)
    IN v = VerbatimWord \/ StartsWith(v, VerbatimWord \o <<" ">>)

\* The "{%" arm of next(): lex_tag, then the verbatim test on a Tag token.
enter_verbatim(r) ==
    IF ~r.panic /\ r.tok[1].type = "Tag" /\ IsVerbatimOpener(r.tok[1].content)
    THEN [r EXCEPT !.lexer.verbatim = SomeVerbatim(Trim(r.tok[1].content))]
    ELSE r

lex_block(l) == enter_verbatim(lex_tag(l, "Tag"))

\* Iterator::next for Lexer, for a non-empty rest.
LexerNext(l) ==
    IF l.verbatim.some THEN lex_verbatim(l, l.verbatim.v)
    ELSE IF StartsWith(l.rest, OpenVariable) THEN lex_tag(l, "Variable")
    ELSE IF StartsWith(l.rest, OpenTag) THEN lex_block(l)
    ELSE IF StartsWith(l.rest, OpenComment) THEN lex_tag(l, "Comment")
    ELSE lex_text(l)

(***************************************************************************)
(* VariableLexer: the struct is the record [rest, byte, mode].  An item is *)
(* Ok(VariableToken) or Err(VariableLexerError); next() returns the struct *)
(* after the call, a sequence of zero (None) or one item, and whether the  *)
(* call aborted.  Spans are relative to the variable content given to      *)
(* new().                                                                  *)
(***************************************************************************)
Pipe == <<"|">>
Colon == <<":">>
Backslash == "\\"

IsDigit(c) == c \in {"0", "1", "2", "3", "4", "5", "6", "7", "8", "9"}

VariableToken(token_type, content, start, end) ==
    [ok |-> TRUE, token_type |-> token_type, content |-> content, at |-> <<start, end>>]

VariableLexerError(error, start, end) ==
    [ok |-> FALSE, error |-> error, at |-> <<start, end>>]

VRet(l, item) == [lexer |-> l, item |-> <<item>>, panic |-> FALSE]
VNone(l) == [lexer |-> l, item |-> <<>>, panic |-> FALSE]
VAbort(l) == [lexer |-> l, item |-> <<>>, panic |-> TRUE]

VariableLexerNew(variable) ==
    LET rest0 == TrimStart(variable)
    IN [rest |-> TrimEnd(rest0), byte |-> Len(variable) - Len(rest0), mode |-> "Variable"]

lex_to_end(l, token_type) ==
    LET start == l.byte
        content == l.rest
        byte1 == l.byte + Len(content)
    IN VRet([l EXCEPT !.rest = <<>>, !.byte = byte1],
            VariableToken(token_type, content, start, byte1))

lex_to_next(l, next, token_type) ==
    LET start == l.byte
        content == Slice(l.rest, 0, next)
        byte1 == l.byte + Len(content) + 1
    IN VRet([l EXCEPT !.rest = SliceFrom(l.rest, next + 1), !.byte = byte1],
            VariableToken(token_type, content, start, byte1 - 1))

lex_numeric(l) ==
    LET stops == {i \in 0..(Len(l.rest) - 1) :
                     ~(IsDigit(l.rest[i + 1]) \/ l.rest[i + 1] = "." \/ l.rest[i + 1] = "e")}
        end == IF stops = {} THEN Len(l.rest) ELSE Min(stops)
        start == l.byte
        byte1 == l.byte + end
    IN VRet([l EXCEPT !.rest = SliceFrom(l.rest, end), !.byte = byte1],
            VariableToken("Numeric", Slice(l.rest, 0, end), start, byte1))

lex_variable(l) ==
    LET next_filter == Find(l.rest, Pipe)
    IN IF next_filter = NoneIdx THEN lex_to_end(l, "Variable")
       ELSE lex_to_next(l, next_filter, "Variable")

\* The remainder check leaving self.rest as it is on InvalidRemainder.
check_remainder_keep_rest(l, token) ==
    LET n == Find(l.rest, Pipe)
    IN IF n # NoneIdx
       THEN LET remainder == Slice(l.rest, 0, n)
            IN IF Trim(remainder) = <<>>
               THEN VRet([l EXCEPT !.rest = SliceFrom(l.rest, n + 1), !.byte = l.byte + n + 1],
                         token)
               ELSE VRet([l EXCEPT !.rest = SliceFrom(l.rest, n + 1), !.byte = l.byte + n + 1],
                         VariableLexerError("InvalidRemainder", l.byte, l.byte + Len(remainder)))
       ELSE IF Trim(l.rest) = <<>>
            THEN VRet(l, token)
            ELSE VRet([l EXCEPT !.rest = <<>>],
                      VariableLexerError("InvalidRemainder", l.byte, l.byte + Len(l.rest)))

\* The remainder check with the InvalidRemainder span run to the end of the
\* content.
check_remainder_to_end(l, token) ==
    LET n == Find(l.rest, Pipe)
    IN IF n # NoneIdx
       THEN LET remainder == Slice(l.rest, 0, n)
            IN IF Trim(remainder) = <<>>
               THEN VRet([l EXCEPT !.rest = SliceFrom(l.rest, n + 1), !.byte = l.byte + n + 1],
                         token)
               ELSE VRet([l EXCEPT !.rest = <<>>],
                         VariableLexerError("InvalidRemainder", l.byte, l.byte + Len(l.rest)))
       ELSE IF Trim(l.rest) = <<>>
            THEN VRet(l, token)
            ELSE VRet([l EXCEPT !.rest = <<>>],
                      VariableLexerError("InvalidRemainder", l.byte, l.byte + Len(l.rest)))

\* The remainder check that ends the Argument arm of next() (lex.rs:419-443).
check_remainder(l, token) ==
    LET n == Find(l.rest, Pipe)
    IN IF n # NoneIdx
       THEN LET remainder == Slice(l.rest, 0, n)
            IN IF Trim(remainder) = <<>>
               THEN VRet([l EXCEPT !.rest = SliceFrom(l.rest, n + 1), !.byte = l.byte + n + 1],
                         token)
               ELSE VRet([l EXCEPT !.rest = <<>>],
                         VariableLexerError("InvalidRemainder", l.byte, l.byte + Len(remainder)))
       ELSE IF Trim(l.rest) = <<>>
            THEN VRet(l, token)
            ELSE VRet([l EXCEPT !.rest = <<>>],
                      VariableLexerError("InvalidRemainder", l.byte, l.byte + Len(l.rest)))

\* lex_text and lex_translated also return what is left of the chars
\* iterator, which the caller goes on reading.
TRet(l, item, chars) == [lexer |-> l, item |-> <<item>>, panic |-> FALSE, chars |-> chars]
TAbort(l) == [lexer |-> l, item |-> <<>>, panic |-> TRUE, chars |-> <<>>]

RECURSIVE VariableLexerNext(_)
RECURSIVE variable_lex_text(_, _, _, _)

\* The backslash arm of lex_text: count += 1 and self.next(), whose result r
\* is dropped, then the loop goes on.
lex_text_escape(r, chars, end, count) ==
    IF r.panic THEN TAbort(r.lexer)
    ELSE variable_lex_text(r.lexer, chars, end, count + 1)

\* VariableLexer::lex_text; the loop carries count.  On a backslash the
\* code calls self.next(), which is VariableLexer's own Iterator::next.
variable_lex_text(l, chars, end, count) ==
    IF chars = <<>>
    THEN TRet([l EXCEPT !.rest = <<>>],
              VariableLexerError("IncompleteString", l.byte, l.byte + count), chars)
    ELSE LET next == Head(chars)
             count1 == count + 1
         IN IF next = Backslash
            THEN lex_text_escape(VariableLexerNext(l), Tail(chars), end, count1)
            ELSE IF next = end
            THEN IF ~SliceOk(l.rest, 1, count1 - 1) \/ ~SliceOk(l.rest, count1, Len(l.rest))
                 THEN TAbort(l)
                 ELSE LET start == l.byte
                          content == Slice(l.rest, 1, count1 - 1)
                          byte1 == l.byte + Len(content) + 2
                      IN TRet([l EXCEPT !.rest = SliceFrom(l.rest, count1), !.byte = byte1],
                              VariableToken("Text", content, start, byte1), Tail(chars))
            ELSE variable_lex_text(l, Tail(chars), end, count1)

\* The end of lex_translated (lex.rs:315-338): t is what lex_text returned.
lex_translated_close(start, t) ==
    IF t.panic \/ ~t.item[1].ok THEN t
    ELSE IF t.chars # <<>> /\ Head(t.chars) = ")"
    THEN IF ~SliceOk(t.lexer.rest, 1, Len(t.lexer.rest)) THEN TAbort(t.lexer)
         ELSE TRet([t.lexer EXCEPT !.byte = t.lexer.byte + 1,
                                   !.rest = SliceFrom(t.lexer.rest, 1)],
                   VariableToken("TranslatedText", t.item[1].content, start, t.lexer.byte + 1),
                   Tail(t.chars))
    ELSE TRet([t.lexer EXCEPT !.rest = <<>>],
              VariableLexerError("IncompleteTranslatedString", start, t.lexer.byte),
              t.chars)

\* VariableLexer::lex_translated; chars has already yielded "_" and "(".
lex_translated(l0, chars) ==
    LET start == l0.byte
        l == [l0 EXCEPT !.byte = l0.byte + 2, !.rest = SliceFrom(l0.rest, 2)]
    IN IF chars = <<>>
       THEN TRet([l EXCEPT !.rest = <<>>],
                 VariableLexerError("MissingTranslatedString", start, l.byte), chars)
       ELSE IF Head(chars) \in {"'", "\""}
       THEN lex_translated_close(start, variable_lex_text(l, Tail(chars), Head(chars), 1))
       ELSE TRet([l EXCEPT !.rest = <<>>],
                 VariableLexerError("MissingTranslatedString", start, l.byte + Len(l.rest)),
                 chars)

\* The argument t the arm lexed goes through the remainder check.
checked(t) == IF t.panic THEN VAbort(t.lexer) ELSE check_remainder(t.lexer, t.item[1])

\* The Mode::Argument arm with the LeadingUnderscore span run to the end of
\* the content.
lex_argument_underscore_to_end(l) ==
    LET c == Head(l.rest)
        chars == Tail(l.rest)
    IN IF c = "_"
       THEN IF chars # <<>> /\ Head(chars) = "("
            THEN checked(lex_translated(l, Tail(chars)))
            ELSE VRet([l EXCEPT !.byte = l.byte + Len(l.rest), !.rest = <<>>],
                      VariableLexerError("LeadingUnderscore", l.byte, l.byte + Len(l.rest)))
       ELSE IF c \in {"'", "\""}
       THEN checked(variable_lex_text(l, chars, c, 1))
       ELSE IF IsDigit(c)
       THEN checked(lex_numeric(l))
       ELSE lex_variable(l)

\* The Mode::Argument arm of next(); self.mode is already Filter.
lex_argument(l) ==
    LET c == Head(l.rest)
        chars == Tail(l.rest)
    IN IF c = "_"
       THEN IF chars # <<>> /\ Head(chars) = "("
            THEN checked(lex_translated(l, Tail(chars)))
            ELSE LET ws == {i \in 0..(Len(l.rest) - 1) : IsWhitespace(l.rest[i + 1])}
                     end == IF ws = {} THEN Len(l.rest) ELSE Min(ws)
                 IN VRet([l EXCEPT !.byte = l.byte + Len(l.rest), !.rest = <<>>],
                         VariableLexerError("LeadingUnderscore", l.byte, l.byte + end))
       ELSE IF c \in {"'", "\""}
       THEN checked(variable_lex_text(l, chars, c, 1))
       ELSE IF IsDigit(c)
       THEN checked(lex_numeric(l))
       ELSE lex_variable(l)

\* The Mode::Filter arm splitting at "|" whenever there is one.
lex_filter_pipe_first(l) ==
    LET next_filter == Find(l.rest, Pipe)
        next_argument == Find(l.rest, Colon)
    IN IF next_filter = NoneIdx /\ next_argument = NoneIdx
       THEN lex_to_end(l, "Filter")
       ELSE IF next_filter = NoneIdx
       THEN lex_to_next([l EXCEPT !.mode = "Argument"], next_argument, "Filter")
       ELSE lex_to_next(l, next_filter, "Filter")

\* The Mode::Filter arm of next().
lex_filter(l) ==
    LET next_filter == Find(l.rest, Pipe)
        next_argument == Find(l.rest, Colon)
    IN IF next_filter = NoneIdx /\ next_argument = NoneIdx
       THEN lex_to_end(l, "Filter")
       ELSE IF next_filter = NoneIdx
       THEN lex_to_next([l EXCEPT !.mode = "Argument"], next_argument, "Filter")
       ELSE IF next_argument # NoneIdx /\ next_argument < next_filter
       THEN lex_to_next([l EXCEPT !.mode = "Argument"], next_argument, "Filter")
       ELSE lex_to_next(l, next_filter, "Filter")

\* Iterator::next for VariableLexer.
VariableLexerNext(l) ==
    IF l.rest = <<>> THEN VNone(l)
    ELSE IF l.mode = "Variable" THEN lex_variable([l EXCEPT !.mode = "Filter"])
    ELSE IF l.mode = "Filter" THEN lex_filter(l)
    ELSE lex_argument([l EXCEPT !.mode = "Filter"])

(***************************************************************************)
(* What parse.rs imports from lex.rs and is not in lex.rs as given:        *)
(* lex_variable(variable, start) and the filter lexer it returns, and the  *)
(* token views with spans (start, len) that parse.rs slices with.  They    *)
(* are modelled over VariableLexer: the first item is the variable token,  *)
(* every Filter item is paired with the argument item that follows it when *)
(* its name was ended by ":", and start is added to every span.            *)
(***************************************************************************)
\* (start, end) of lex.rs as the (start, len) parse.rs reads, moved by base.
SpanAt(at, base) == <<at[1] + base, at[2] - at[1]>>

TokenAt(tok) == SpanAt(tok.at, 0)

\* Argument token: at covers quotes and translation marker, content_at the text.
ArgumentToken(item, base) ==
    LET at == SpanAt(item.at, base)
        inset == CASE item.token_type = "Text" -> 1
                   [] item.token_type = "TranslatedText" -> 3
                   [] OTHER -> 0
    IN [argument_type |-> item.token_type, at |-> at, content |-> item.content,
        content_at |-> <<at[1] + inset, Len(item.content)>>]

\* The filter token at, with the argument item a that followed its ":".
FilterWithArgument(at, a, base) ==
    IF a.panic THEN a
    ELSE IF a.item = <<>>
    THEN VRet(a.lexer, [ok |-> TRUE, at |-> at, argument |-> <<>>])
    ELSE IF ~a.item[1].ok
    THEN VRet(a.lexer, [a.item[1] EXCEPT !.at = SpanAt(a.item[1].at, base)])
    ELSE VRet(a.lexer, [ok |-> TRUE, at |-> at,
                        argument |-> <<ArgumentToken(a.item[1], base)>>])

\* The filter item f, paired with its argument when the mode asks for one.
FilterToken(f, base) ==
    IF f.panic \/ f.item = <<>> THEN f
    ELSE IF ~f.item[1].ok THEN f
    ELSE IF f.lexer.mode # "Argument"
    THEN VRet(f.lexer, [ok |-> TRUE, at |-> SpanAt(f.item[1].at, base), argument |-> <<>>])
    ELSE FilterWithArgument(SpanAt(f.item[1].at, base), VariableLexerNext(f.lexer), base)

\* next() of the filter lexer: a filter token with its optional argument.
FilterLexerNext(l, base) == FilterToken(VariableLexerNext(l), base)

\* lex_variable(variable, start): None, or the variable token and the lexer.
FirstToken(v, start) ==
    IF v.panic \/ v.item = <<>> THEN v
    ELSE VRet(v.lexer, [v.item[1] EXCEPT !.at = SpanAt(v.item[1].at, start)])

LexVariable(variable, start) ==
    FirstToken(VariableLexerNext(VariableLexerNew(variable)), start)

(***************************************************************************)
(* parse.rs: the tree, Filter::new, ArgumentToken::parse, Parser.          *)
(***************************************************************************)
VariableNode(at) == [type |-> "Variable", at |-> at]
TextNode(at) == [type |-> "Text", at |-> at]
FilterNode(at, left, filter) == [type |-> "Filter", at |-> at, left |-> left, filter |-> filter]

POk(node) == [kind |-> "Ok", node |-> node]
PErr(error, at) == [kind |-> "Err", error |-> error, at |-> at]
PAbort == [kind |-> "abort"]

DefaultName == <<"d", "e", "f", "a", "u", "l", "t">>
LowerName == <<"l", "o", "w", "e", "r">>

\* Filter::new without the arity checks: every filter is External.
FilterNew_no_arity(t, at, left, right) ==
    IF ~SliceOk(t, at[1], at[1] + at[2]) THEN PAbort
    ELSE POk(FilterNode(at, left, [type |-> "External", argument |-> right]))

\* Filter::new matching the name after trimming it.
FilterNew_trimmed(t, at, left, right) ==
    IF ~SliceOk(t, at[1], at[1] + at[2]) THEN PAbort
    ELSE LET name == Trim(Slice(t, at[1], at[1] + at[2]))
         IN IF name = DefaultName
            THEN IF right # <<>>
                 THEN POk(FilterNode(at, left, [type |-> "Default", argument |-> right]))
                 ELSE PErr("MissingArgument", at)
            ELSE IF name = LowerName
            THEN IF right # <<>>
                 THEN PErr("UnexpectedArgument", right[1].at)
                 ELSE POk(FilterNode(at, left, [type |-> "Lower", argument |-> <<>>]))
            ELSE POk(FilterNode(at, left, [type |-> "External", argument |-> right]))

\* Filter::new(template, at, left, right); right is a sequence of 0 or 1.
FilterNew(t, at, left, right) ==
    IF ~SliceOk(t, at[1], at[1] + at[2]) THEN PAbort
    ELSE LET name == Slice(t, at[1], at[1] + at[2])
         IN IF name = DefaultName
            THEN IF right # <<>>
                 THEN POk(FilterNode(at, left, [type |-> "Default", argument |-> right]))
                 ELSE PErr("MissingArgument", at)
            ELSE IF name = LowerName
            THEN IF right # <<>>
                 THEN PErr("UnexpectedArgument", right[1].at)
                 ELSE POk(FilterNode(at, left, [type |-> "Lower", argument |-> <<>>]))
            ELSE POk(FilterNode(at, left, [type |-> "External", argument |-> right]))

RECURSIVE AllDigits(_)
AllDigits(s) == s = <<>> \/ (IsDigit(Head(s)) /\ AllDigits(Tail(s)))

\* str::parse::<BigInt>() succeeds on a token of digits, "." and "e".
IsBigInt(s) == s # <<>> /\ AllDigits(s)

\* str::parse::<f64>() succeeds: Digit+ ["." Digit*] ["e" Digit+], or
\* "." Digit+ in place of the mantissa.
IsF64(s) ==
    LET e == Find(s, <<"e">>)
        mantissa == IF e = NoneIdx THEN s ELSE Slice(s, 0, e)
        exponent == IF e = NoneIdx THEN <<"0">> ELSE SliceFrom(s, e + 1)
        dot == Find(mantissa, <<".">>)
        int == IF dot = NoneIdx THEN mantissa ELSE Slice(mantissa, 0, dot)
        frac == IF dot = NoneIdx THEN <<>> ELSE SliceFrom(mantissa, dot + 1)
    IN /\ AllDigits(int) /\ AllDigits(frac) /\ (int # <<>> \/ frac # <<>>)
       /\ exponent # <<>> /\ AllDigits(exponent)

\* ArgumentToken::parse trying f64 before BigInt.
ArgumentParse_float_first(a) ==
    CASE a.argument_type = "Variable" ->
           POk([at |-> a.at, argument_type |-> [type |-> "Variable", variable |-> VariableNode(a.at)]])
      [] a.argument_type = "Text" ->
           POk([at |-> a.at, argument_type |-> [type |-> "Text", text |-> TextNode(a.content_at)]])
      [] a.argument_type = "TranslatedText" ->
           POk([at |-> a.at,
                argument_type |-> [type |-> "TranslatedText", text |-> TextNode(a.content_at)]])
      [] a.argument_type = "Numeric" ->
           IF IsF64(a.content)
           THEN POk([at |-> a.at, argument_type |-> [type |-> "Float", literal |-> a.content]])
           ELSE IF IsBigInt(a.content)
           THEN POk([at |-> a.at, argument_type |-> [type |-> "Int", digits |-> a.content]])
           ELSE PErr("InvalidNumber", a.at)

\* ArgumentToken::parse.
ArgumentParse(a) ==
    CASE a.argument_type = "Variable" ->
           POk([at |-> a.at, argument_type |-> [type |-> "Variable", variable |-> VariableNode(a.at)]])
      [] a.argument_type = "Text" ->
           POk([at |-> a.at, argument_type |-> [type |-> "Text", text |-> TextNode(a.content_at)]])
      [] a.argument_type = "TranslatedText" ->
           POk([at |-> a.at,
                argument_type |-> [type |-> "TranslatedText", text |-> TextNode(a.content_at)]])
      [] a.argument_type = "Numeric" ->
           IF IsBigInt(a.content)
           THEN POk([at |-> a.at, argument_type |-> [type |-> "Int", digits |-> a.content]])
           ELSE IF IsF64(a.content)
           THEN POk([at |-> a.at, argument_type |-> [type |-> "Float", literal |-> a.content]])
           ELSE PErr("InvalidNumber", a.at)

RECURSIVE PushInnermost(_, _)
PushInnermost(tree, node) ==
    IF tree.type = "Filter" THEN [tree EXCEPT !.left = PushInnermost(tree.left, node)]
    ELSE [node EXCEPT !.left = tree]

\* The loop body building the chain the wrong way round: the new filter
\* goes under the filters built so far.
fold_filter_innermost(t, var, at, argument) ==
    LET f == FilterNew(t, at, var, argument)
    IN IF f.kind = "Ok" /\ var.type = "Filter" THEN POk(PushInnermost(var, f.node)) ELSE f

\* The loop body of parse_variable (parse.rs:171-172): the tree built so
\* far is the left of the new filter.
fold_filter(t, var, at, argument) == FilterNew(t, at, var, argument)

\* The for loop of parse_variable.  pos and built are not part of the
\* result: they say where the lexer stood when the failing iteration began
\* and how many filters had been built.
RECURSIVE parse_filters(_, _, _, _, _)

Failed(r, pos, built) == r @@ [pos |-> pos, built |-> built]

\* Some(ref a) => Some(a.parse(self.template)?)
parse_argument(argument) ==
    IF argument = <<>> THEN POk(<<>>) ELSE ArgumentParse(argument[1])

some_argument(argument, a) == IF argument = <<>> THEN <<>> ELSE <<a.node>>

\* One iteration, after the filter was built: the loop goes on with it.
filter_built(t, base, l, filter, pos, built) ==
    IF filter.kind # "Ok" THEN Failed(filter, pos, built)
    ELSE parse_filters(t, base, l, filter.node, built + 1)

\* One iteration, after the argument a was parsed.
argument_parsed(t, base, l, var, token, a, pos, built) ==
    IF a.kind # "Ok" THEN Failed(a, pos, built)
    ELSE filter_built(t, base, l,
                      fold_filter(t, var, token.at, some_argument(token.argument, a)),
                      pos, built)

\* One iteration, for the item ft the filter lexer returned.
filter_token(t, base, ft, var, pos, built) ==
    IF ft.panic THEN Failed(PAbort, pos, built)
    ELSE IF ft.item = <<>> THEN POk(var)
    ELSE IF ~ft.item[1].ok THEN Failed(PErr(ft.item[1].error, ft.item[1].at), pos, built)
    ELSE argument_parsed(t, base, ft.lexer, var, ft.item[1],
                         parse_argument(ft.item[1].argument), pos, built)

parse_filters(t, base, l, var, built) ==
    filter_token(t, base, FilterLexerNext(l, base), var, l.byte, built)

\* parse_variable reporting EmptyVariable at the content between the
\* delimiters.
variable_lexed_inner_span(t, first, at) ==
    IF first.panic THEN Failed(PAbort, 0, 0)
    ELSE IF first.item = <<>>
    THEN Failed(PErr("EmptyVariable", <<at[1] + START_TAG_LEN, at[2] - 4>>), 0, 0)
    ELSE parse_filters(t, at[1] + START_TAG_LEN, first.lexer,
                       VariableNode(first.item[1].at), 0)

\* parse_variable after lex_variable returned first.
variable_lexed(t, first, at) ==
    IF first.panic THEN Failed(PAbort, 0, 0)
    ELSE IF first.item = <<>> THEN Failed(PErr("EmptyVariable", at), 0, 0)
    ELSE parse_filters(t, at[1] + START_TAG_LEN, first.lexer,
                       VariableNode(first.item[1].at), 0)

\* Parser::parse_variable(variable, at); at is the token's (start, len).
parse_variable(t, variable, at) ==
    variable_lexed(t, LexVariable(variable, at[1] + START_TAG_LEN), at)

(***************************************************************************)
(* Inputs.  Two families of templates: every string over a small alphabet  *)
(* up to MaxLen characters, and every concatenation of up to MaxChunks     *)
(* whole constructs (verbatim openers and closers, tags, variables, text). *)
(***************************************************************************)
Alphabet == {"{", "}", "%", "#", "x"}

RECURSIVE StringsUpTo(_)
StringsUpTo(n) ==
    IF n = 0 THEN {<<>>}
    ELSE LET shorter == StringsUpTo(n - 1)
         IN shorter \cup {Append(s, c) : s \in shorter, c \in Alphabet}

TagOf(inner) == OpenTag \o inner \o CloseTag

EndWord == <<"e", "n", "d">>

Chunks ==
    { TagOf(<<" ">> \o VerbatimWord \o <<" ">>),
      TagOf(VerbatimWord \o <<" ", "s">>),
      TagOf(<<" ">> \o EndWord \o VerbatimWord \o <<" ">>),
      TagOf(EndWord \o VerbatimWord \o <<" ", "s">>),
      TagOf(<<"x", "y", "z">> \o VerbatimWord),
      OpenVariable \o <<"x">> \o CloseVariable,
      TagOf(<<"x">>),
      <<"x">>,
      OpenTag,
      <<"}">> }

RECURSIVE ChunkStrings(_)
ChunkStrings(n) ==
    IF n = 0 THEN {<<>>}
    ELSE LET shorter == ChunkStrings(n - 1)
         IN shorter \cup {s \o c : s \in shorter, c \in Chunks}

Templates == StringsUpTo(MaxLen) \cup ChunkStrings(MaxChunks)

(***************************************************************************)
(* The structural lexer as a state machine: one action per call of next(). *)
(***************************************************************************)
Self == [rest |-> rest, byte |-> byte, verbatim |-> verbatim]

\* The VariableLexer of the third state machine, and its state when no
\* VariableLexer has been constructed.
variable_lexer == <<vcontent, vlexer, vitems, vstatus>>

NoVariableLexer ==
    /\ vcontent = <<>>
    /\ vlexer = VariableLexerNew(<<>>)
    /\ vitems = <<>>
    /\ vstatus = "idle"

\* The context and the strings rendered in the fourth state machine, and
\* their state when nothing is rendered.
renderer == <<context, rendered, rstatus>>

NoRenderer ==
    /\ context = {}
    /\ rendered = <<>>
    /\ rstatus = "idle"

Init ==
    /\ template \in Templates
    /\ rest = template
    /\ byte = 0
    /\ verbatim = NoVerbatim
    /\ tokens = <<>>
    /\ status = "running"
    /\ nodes = <<>>
    /\ result = [kind |-> "idle"]
    /\ NoVariableLexer
    /\ NoRenderer

\* next() with an empty rest: None.
NextNone ==
    /\ status \in {"running", "done"}
    /\ rest = <<>>
    /\ status' = "done"
    /\ UNCHANGED <<template, rest, byte, verbatim, tokens, nodes, result>>
    /\ UNCHANGED variable_lexer
    /\ UNCHANGED renderer

Apply(r) ==
    IF r.panic
    THEN /\ status' = "panic"
         /\ UNCHANGED <<template, rest, byte, verbatim, tokens, nodes, result>>
         /\ UNCHANGED variable_lexer
         /\ UNCHANGED renderer
    ELSE /\ rest' = r.lexer.rest
         /\ byte' = r.lexer.byte
         /\ verbatim' = r.lexer.verbatim
         /\ tokens' = tokens \o r.tok
         /\ UNCHANGED <<template, status, nodes, result>>
         /\ UNCHANGED variable_lexer
         /\ UNCHANGED renderer

\* next() outside a verbatim block.
NextNormal ==
    /\ status = "running"
    /\ rest # <<>>
    /\ ~verbatim.some
    /\ Apply(LexerNext(Self))

\* next() inside a verbatim block.
NextVerbatim ==
    /\ status = "running"
    /\ rest # <<>>
    /\ verbatim.some
    /\ Apply(LexerNext(Self))

Next == NextNone \/ NextNormal \/ NextVerbatim

Spec == Init /\ [][Next]_vars

(***************************************************************************)
(* Parser inputs: one variable tag holding a path and up to MaxFilters     *)
(* filters, and every concatenation of up to MaxConstructs constructs.     *)
(***************************************************************************)
VarOf(inner) == OpenVariable \o inner \o CloseVariable

Segments ==
    { <<"|", "f">>,
      <<"|">> \o DefaultName,
      <<"|">> \o DefaultName \o <<":", "y">>,
      <<"|">> \o LowerName,
      <<"|">> \o LowerName \o <<":", "'", "a", "'">>,
      <<"|", "f", ":", "'", "a", "'", " ">>,
      <<"|", "f", ":", "9">>,
      <<"|", "f", ":", "9", ".", "9", ".", "9">>,
      <<"|", "f", ":", "'", "a">>,
      <<"|", "f", ":", "_", "y">>,
      <<"|", "f", ":", "\"", "a", "\"", "y">>,
      <<"|", "f", ":", "_", "(", "'", "a", "'", ")">>,
      <<"|", "f", ":">> }

RECURSIVE FilterChains(_)
FilterChains(n) ==
    IF n = 0 THEN {<<>>}
    ELSE LET shorter == FilterChains(n - 1)
         IN shorter \cup {s \o c : s \in shorter, c \in Segments}

Constructs ==
    { <<"t">>,
      OpenComment \o <<"c">> \o CloseComment,
      TagOf(<<" ", "x", " ">>),
      VarOf(<<" ">>),
      VarOf(<<"x">>),
      VarOf(<<" ", "x", "|">> \o LowerName \o <<":", "y", " ">>),
      VarOf(<<"x", "|", "f", ":", "'", "\\", "a", "'">>),
      <<"t">> \o OpenComment \o <<"}">>,
      VarOf(<<>>),
      VarOf(<<" ", "|", "f", " ">>),
      VarOf(<<"x", "|", "D", "e", "f", "a", "u", "l", "t">>),
      VarOf(<<"x", "|", " ">> \o LowerName \o <<":", "y">>),
      VarOf(<<"x", "|">> \o DefaultName \o <<" ", "|", "f">>),
      VarOf(<<"x", "|", "|", "f", ":", "y">>),
      VarOf(<<"x", "|">> \o DefaultName \o <<":">>),
      VarOf(<<"x", "|", "f", ":", "5", ".", "2", "e", "3">>),
      VarOf(<<"x", "|", "f", ":", "9", "9", "9">>),
      VarOf(<<"x", "|", "f", ":", "9", "e">>),
      VarOf(<<"x", "|", "f", ":", "|", "g">>),
      VarOf(<<"x", "|", "f", ":", "'", "\\", "|", "a", "'", " ", " ", "|", "|">>) }

RECURSIVE ConstructStrings(_)
ConstructStrings(n) ==
    IF n = 0 THEN {<<>>}
    ELSE LET shorter == ConstructStrings(n - 1)
         IN shorter \cup {s \o c : s \in shorter, c \in Constructs}

ParseTemplates ==
    {pre \o VarOf(<<" ", "x">> \o c) \o post :
        pre \in {<<>>, <<"t">>}, c \in FilterChains(MaxFilters), post \in {<<>>, VarOf(<<" ">>)}}
        \cup ConstructStrings(MaxConstructs)

(***************************************************************************)
(* Parser::parse as a state machine: Parser::new, then one action per      *)
(* iteration of the while loop, by the kind of token the lexer returns.    *)
(***************************************************************************)
InitParse ==
    /\ template \in ParseTemplates
    /\ rest = template
    /\ byte = 0
    /\ verbatim = NoVerbatim
    /\ tokens = <<>>
    /\ status = "running"
    /\ nodes = <<>>
    /\ result = [kind |-> "running"]
    /\ NoVariableLexer
    /\ NoRenderer

\* self.lexer.next() returned a token of this kind.
Returned(r, kind) ==
    /\ ~r.panic
    /\ r.tok[1].type = kind
    /\ rest' = r.lexer.rest
    /\ byte' = r.lexer.byte
    /\ verbatim' = r.lexer.verbatim
    /\ tokens' = tokens \o r.tok
    /\ UNCHANGED <<template, status>>
    /\ UNCHANGED variable_lexer
    /\ UNCHANGED renderer

Lexed(kind) ==
    /\ result.kind = "running"
    /\ rest # <<>>
    /\ Returned(LexerNext(Self), kind)

\* nodes.push(...?) with the error swallowed and the loop going on.
TryPush_skip(r) ==
    IF r.kind = "Ok"
    THEN nodes' = Append(nodes, r.node) /\ UNCHANGED result
    ELSE UNCHANGED <<nodes, result>>

\* nodes.push(self.parse_variable(...)?): push the node, or return the
\* error alone, the vector being dropped.
TryPush(r) ==
    IF r.kind = "Ok"
    THEN nodes' = Append(nodes, r.node) /\ UNCHANGED result
    ELSE IF r.kind = "Err"
    THEN nodes' = <<>> /\ result' = [kind |-> "Err", error |-> r.error, at |-> r.at]
    ELSE nodes' = <<>> /\ result' = [kind |-> "abort"]

ParseText ==
    /\ Lexed("Text")
    /\ nodes' = Append(nodes, TextNode(TokenAt(Last(tokens'))))
    /\ UNCHANGED result

\* TokenType::Comment pushing a Text node instead of continuing.
ParseComment_push ==
    /\ Lexed("Comment")
    /\ nodes' = Append(nodes, TextNode(TokenAt(Last(tokens'))))
    /\ UNCHANGED result

ParseComment ==
    /\ Lexed("Comment")
    /\ UNCHANGED <<nodes, result>>

ParseVariable ==
    /\ Lexed("Variable")
    /\ TryPush(parse_variable(template, Last(tokens').content, TokenAt(Last(tokens'))))

\* parse_tag is todo!().
ParseTag ==
    /\ Lexed("Tag")
    /\ nodes' = <<>>
    /\ result' = [kind |-> "abort"]

\* self.lexer.next() aborted.
ParseLexerAbort ==
    /\ result.kind = "running"
    /\ rest # <<>>
    /\ LexerNext(Self).panic
    /\ nodes' = <<>>
    /\ result' = [kind |-> "abort"]
    /\ UNCHANGED <<template, rest, byte, verbatim, tokens, status>>
    /\ UNCHANGED variable_lexer
    /\ UNCHANGED renderer

\* self.lexer.next() returned None: Ok(nodes).
ParseEnd ==
    /\ result.kind = "running"
    /\ rest = <<>>
    /\ result' = [kind |-> "Ok", nodes |-> nodes]
    /\ UNCHANGED <<template, rest, byte, verbatim, tokens, status, nodes>>
    /\ UNCHANGED variable_lexer
    /\ UNCHANGED renderer

NextParse ==
    ParseText \/ ParseComment \/ ParseVariable \/ ParseTag \/ ParseLexerAbort \/ ParseEnd

SpecParse == InitParse /\ [][NextParse]_vars

(***************************************************************************)
(* VariableLexer inputs: every string over a small alphabet up to          *)
(* MaxVarLen characters, a path followed by up to MaxFilters filter        *)
(* segments, string arguments that hold a backslash, and one filter whose  *)
(* argument is every string up to MaxArgLen characters after nothing, "_"  *)
(* or "_(".                                                                *)
(***************************************************************************)
VariableAlphabet == {"x", "|", ":", "'", "\\", "_", "9", " "}

RECURSIVE VariableStringsUpTo(_)
VariableStringsUpTo(n) ==
    IF n = 0 THEN {<<>>}
    ELSE LET shorter == VariableStringsUpTo(n - 1)
         IN shorter \cup {Append(s, c) : s \in shorter, c \in VariableAlphabet}

EscapedContents ==
    { <<"x", "|", "f", ":", "'", "a", "\\", "'", "b", "'", "|", "g">>,
      <<"x", "|", "f", ":", "'", "\\", "|", "a", "'", " ", " ", "|", "|">>,
      <<"|", ":", "'", "\\", ":", "'", "x", "x", "x", "x", "|", "y">>,
      <<"x", "|", "f", ":", "'", "\\", ":", "_", "\\", "a">> }

RECURSIVE ArgumentStringsUpTo(_)
ArgumentStringsUpTo(n) ==
    IF n = 0 THEN {<<>>}
    ELSE LET shorter == ArgumentStringsUpTo(n - 1)
         IN shorter \cup {Append(s, c) : s \in shorter, c \in {"'", "\\", "a", ")", "|", " "}}

ArgumentContents ==
    {<<"x", "|", "f", ":">> \o open \o body :
        open \in {<<>>, <<"_">>, <<"_", "(">>}, body \in ArgumentStringsUpTo(MaxArgLen)}

VariableContents ==
    VariableStringsUpTo(MaxVarLen)
        \cup {pre \o c : pre \in {<<"x">>, <<" ", "x", ".", "y">>}, c \in FilterChains(MaxFilters)}
        \cup EscapedContents
        \cup ArgumentContents

(***************************************************************************)
(* The VariableLexer as a state machine: VariableLexer::new, then one      *)
(* action per call of next(), by the arm of next() that runs.              *)
(***************************************************************************)
InitVariable ==
    /\ template = <<>>
    /\ rest = <<>>
    /\ byte = 0
    /\ verbatim = NoVerbatim
    /\ tokens = <<>>
    /\ status = "idle"
    /\ nodes = <<>>
    /\ result = [kind |-> "idle"]
    /\ vcontent \in VariableContents
    /\ vlexer = VariableLexerNew(vcontent)
    /\ vitems = <<>>
    /\ vstatus = "running"
    /\ NoRenderer

\* next() with an empty rest: None.
VariableNone ==
    /\ vstatus \in {"running", "done"}
    /\ vlexer.rest = <<>>
    /\ vstatus' = "done"
    /\ UNCHANGED <<template, rest, byte, verbatim, tokens, status, nodes, result>>
    /\ UNCHANGED <<vcontent, vlexer, vitems>>
    /\ UNCHANGED renderer

VariableApply(r) ==
    /\ IF r.panic
       THEN vstatus' = "panic" /\ UNCHANGED <<vlexer, vitems>>
       ELSE vlexer' = r.lexer /\ vitems' = vitems \o r.item /\ UNCHANGED vstatus
    /\ UNCHANGED <<template, rest, byte, verbatim, tokens, status, nodes, result, vcontent>>
    /\ UNCHANGED renderer

\* next() with a non-empty rest.
VariableCall ==
    /\ vstatus = "running"
    /\ vlexer.rest # <<>>
    /\ VariableApply(VariableLexerNext(vlexer))

\* The Mode::Variable arm.
VariableMode ==
    /\ vlexer.mode = "Variable"
    /\ VariableCall

\* The Mode::Filter arm.
FilterMode ==
    /\ vlexer.mode = "Filter"
    /\ VariableCall

\* The Mode::Argument arm.
ArgumentMode ==
    /\ vlexer.mode = "Argument"
    /\ VariableCall

NextVariable == VariableNone \/ VariableMode \/ FilterMode \/ ArgumentMode

SpecVariable == InitVariable /\ [][NextVariable]_vars

(***************************************************************************)
(* render.rs.  A Python object of the context is a str, a dict with one    *)
(* key, a list, or an object with one attribute.  resolve returns          *)
(* Ok(Some(content)), Ok(None) or Err, or aborts; render returns a string  *)
(* or aborts.                                                              *)
(***************************************************************************)
PyString(s) == [type |-> "str", s |-> s]
PyDict(key, value) == [type |-> "dict", key |-> key, value |-> value]
PyList(list) == [type |-> "list", list |-> list]
PyObject(attr, value) == [type |-> "object", attr |-> attr, value |-> value]

PyOk(v) == [ok |-> TRUE, value |-> v]
PyErr == [ok |-> FALSE]

\* obj[key] for a str key.
get_item(v, key) == IF v.type = "dict" /\ v.key = key THEN PyOk(v.value) ELSE PyErr

\* getattr(obj, name).
getattr(v, name) == IF v.type = "object" /\ v.attr = name THEN PyOk(v.value) ELSE PyErr

\* obj[int].
get_item_int(v, int) ==
    IF v.type = "list" /\ int < Len(v.list) THEN PyOk(v.list[int + 1])
    ELSE IF v.type = "str" /\ int < Len(v.s) THEN PyOk(PyString(<<v.s[int + 1]>>))
    ELSE PyErr

RECURSIVE PyRepr(_)
RECURSIVE PyStr(_)
RECURSIVE PyReprs(_)

\* repr(obj) of the items of a list, joined with ", ".
PyReprs(list) ==
    IF list = <<>> THEN <<>>
    ELSE IF Len(list) = 1 THEN PyRepr(list[1])
    ELSE PyRepr(list[1]) \o <<",", " ">> \o PyReprs(Tail(list))

PyRepr(v) == IF v.type = "str" THEN <<"'">> \o v.s \o <<"'">> ELSE PyStr(v)

\* str(obj).
PyStr(v) ==
    CASE v.type = "str" -> v.s
      [] v.type = "list" -> <<"[">> \o PyReprs(v.list) \o <<"]">>
      [] v.type = "dict" ->
           <<"{">> \o PyRepr(PyString(v.key)) \o <<":", " ">> \o PyRepr(v.value) \o <<"}">>
      [] v.type = "object" -> <<"<", "o", ">">>

ContentPy(v) == [type |-> "Py", value |-> v]
ContentString(s) == [type |-> "String", s |-> s]
ContentFloat(literal) == [type |-> "Float", literal |-> literal]
ContentInt(digits) == [type |-> "Int", digits |-> digits]

\* BigInt::to_string of the parsed digits: no leading zeros.
RECURSIVE BigIntToString(_)
BigIntToString(digits) ==
    IF Len(digits) > 1 /\ Head(digits) = "0" THEN BigIntToString(Tail(digits)) ELSE digits

RECURSIVE StripTrailingZeros(_)
StripTrailingZeros(s) ==
    IF s # <<>> /\ s[Len(s)] = "0" THEN StripTrailingZeros(SubSeq(s, 1, Len(s) - 1)) ELSE s

DigitValue(c) == CHOOSE n \in 0..9 : <<"0", "1", "2", "3", "4", "5", "6", "7", "8", "9">>[n + 1] = c

\* str::parse::<usize>() of a string of digits.
RECURSIVE ParseUsize(_)
ParseUsize(s) ==
    IF s = <<>> THEN 0 ELSE 10 * ParseUsize(SubSeq(s, 1, Len(s) - 1)) + DigitValue(s[Len(s)])

\* The decimal digits with the point moved right by the exponent.
Decimal(int, frac, exponent) ==
    IF exponent >= Len(frac)
    THEN [int |-> int \o frac \o [i \in 1..(exponent - Len(frac)) |-> "0"], frac |-> <<>>]
    ELSE [int |-> int \o SubSeq(frac, 1, exponent),
          frac |-> SubSeq(frac, exponent + 1, Len(frac))]

DecimalToString(d) ==
    LET int == BigIntToString(IF d.int = <<>> THEN <<"0">> ELSE d.int)
        frac == StripTrailingZeros(d.frac)
    IN IF frac = <<>> THEN int ELSE int \o <<".">> \o frac

\* f64::to_string of the parsed literal: plain decimal notation.
F64ToString(s) ==
    LET e == Find(s, <<"e">>)
        mantissa == IF e = NoneIdx THEN s ELSE Slice(s, 0, e)
        exponent == IF e = NoneIdx THEN <<"0">> ELSE SliceFrom(s, e + 1)
        dot == Find(mantissa, <<".">>)
        int == IF dot = NoneIdx THEN mantissa ELSE Slice(mantissa, 0, dot)
        frac == IF dot = NoneIdx THEN <<>> ELSE SliceFrom(mantissa, dot + 1)
    IN DecimalToString(Decimal(int, frac, ParseUsize(exponent)))

\* Content::render.
content_render(content) ==
    CASE content.type = "Py" -> PyStr(content.value)
      [] content.type = "String" -> content.s
      [] content.type = "Float" -> F64ToString(content.literal)
      [] content.type = "Int" -> BigIntToString(content.digits)

\* str::to_lowercase.
to_lowercase(s) ==
    [i \in 1..Len(s) |-> CASE s[i] = "A" -> "a"
                           [] s[i] = "B" -> "b"
                           [] s[i] = "L" -> "l"
                           [] OTHER -> s[i]]

RSome(content) == [kind |-> "Some", content |-> content]
RNone == [kind |-> "None"]
RErr == [kind |-> "Err"]
RPanic == [kind |-> "Panic"]

\* str::split(".")
RECURSIVE Split(_)
Split(s) ==
    IF Find(s, <<".">>) = NoneIdx THEN <<s>>
    ELSE <<Slice(s, 0, Find(s, <<".">>))>> \o Split(SliceFrom(s, Find(s, <<".">>) + 1))

\* HashMap::get
ContextGet(ctx, name) ==
    IF \E e \in ctx : e.name = name
    THEN PyOk((CHOOSE e \in ctx : e.name = name).value)
    ELSE PyErr

RECURSIVE lookup(_, _)

\* The last resort of the loop body: the part as an integer index.
lookup_int(variable, part, parts) ==
    IF ~(part # <<>> /\ AllDigits(part)) THEN RErr
    ELSE IF get_item_int(variable, ParseUsize(part)).ok
    THEN lookup(get_item_int(variable, ParseUsize(part)).value, parts)
    ELSE RPanic

\* The for loop of Variable::resolve over the parts after the first.
lookup(variable, parts) ==
    IF parts = <<>> THEN RSome(ContentPy(variable))
    ELSE IF get_item(variable, Head(parts)).ok
    THEN lookup(get_item(variable, Head(parts)).value, Tail(parts))
    ELSE IF getattr(variable, Head(parts)).ok
    THEN lookup(getattr(variable, Head(parts)).value, Tail(parts))
    ELSE lookup_int(variable, Head(parts), Tail(parts))

\* Render for Variable: resolve.
resolve_variable(t, at, ctx) ==
    IF ~SliceOk(t, at[1], at[1] + at[2]) THEN RPanic
    ELSE LET parts == Split(Slice(t, at[1], at[1] + at[2]))
         IN IF ContextGet(ctx, Head(parts)).ok
            THEN lookup(ContextGet(ctx, Head(parts)).value, Tail(parts))
            ELSE RNone

\* Text::content wrapped in Content::String.
resolve_text(t, at) ==
    IF ~SliceOk(t, at[1], at[1] + at[2]) THEN RPanic
    ELSE RSome(ContentString(Slice(t, at[1], at[1] + at[2])))

\* Render for Argument: resolve.
resolve_argument(t, argument, ctx) ==
    CASE argument.argument_type.type = "Text" -> resolve_text(t, argument.argument_type.text.at)
      [] argument.argument_type.type = "TranslatedText" -> RPanic
      [] argument.argument_type.type = "Variable" ->
           resolve_variable(t, argument.argument_type.variable.at, ctx)
      [] argument.argument_type.type = "Float" ->
           RSome(ContentFloat(argument.argument_type.literal))
      [] argument.argument_type.type = "Int" ->
           RSome(ContentInt(argument.argument_type.digits))

\* The FilterType::Default arm.
resolve_default(t, right, ctx, left) ==
    IF left.kind = "Some" THEN left ELSE resolve_argument(t, right, ctx)

\* The FilterType::Lower arm.
resolve_lower(left) ==
    IF left.kind = "Some"
    THEN RSome(ContentString(to_lowercase(content_render(left.content))))
    ELSE RSome(ContentString(<<>>))

\* Render for Filter: resolve, once self.left.resolve(...) has returned left.
resolve_filter(t, filter, ctx, left) ==
    IF left.kind \in {"Panic", "Err"} THEN left
    ELSE CASE filter.type = "Default" -> resolve_default(t, filter.argument[1], ctx, left)
           [] filter.type = "External" -> RPanic
           [] filter.type = "Lower" -> resolve_lower(left)

\* Render for TokenTree: resolve.
RECURSIVE resolve(_, _, _)
resolve(t, node, ctx) ==
    CASE node.type = "Text" -> resolve_text(t, node.at)
      [] node.type = "Variable" -> resolve_variable(t, node.at, ctx)
      [] node.type = "Filter" -> resolve_filter(t, node.filter, ctx, resolve(t, node.left, ctx))

\* Render::render, given what resolve returned.
render(resolved) ==
    CASE resolved.kind = "Some" -> [panic |-> FALSE, s |-> content_render(resolved.content)]
      [] resolved.kind = "None" -> [panic |-> FALSE, s |-> <<>>]
      [] resolved.kind = "Err" -> [panic |-> FALSE, s |-> <<>>]
      [] resolved.kind = "Panic" -> [panic |-> TRUE, s |-> <<>>]

(***************************************************************************)
(* Renderer inputs: a template of one variable tag with a path and a       *)
(* filter chain, or of the other constructs, and a context binding x and y *)
(* or leaving them out.                                                    *)
(***************************************************************************)
RenderPaths ==
    { <<"x">>, <<"x", ".", "y">>, <<"x", ".", "0">>, <<"x", ".", "1">>, <<"x", ".", "z">> }

RenderChains ==
    { <<>>,
      <<"|">> \o DefaultName \o <<":", "'", "A", "b", "'">>,
      <<"|">> \o DefaultName \o <<":", "0", "0", "7">>,
      <<"|">> \o DefaultName \o <<":", "1", ".", "5", "0", "e", "1">>,
      <<"|">> \o DefaultName \o <<":", ".", "5">>,
      <<"|">> \o DefaultName \o <<":", "y">>,
      <<"|">> \o DefaultName \o <<":", "y", ".", "1">>,
      <<"|">> \o DefaultName \o <<":", "_", "(", "'", "a", "'", ")">>,
      <<"|">> \o LowerName,
      <<"|", "f">>,
      <<"|">> \o DefaultName \o <<":", "'", "A", "b", "'", "|">> \o LowerName,
      <<"|">> \o LowerName \o <<"|">> \o DefaultName \o <<":", "y">> }

RenderTemplates ==
    {VarOf(<<" ">> \o path \o chain \o <<" ">>) : path \in RenderPaths, chain \in RenderChains}
        \cup { <<"t">> \o VarOf(<<"x">>) \o <<"t">>,
               OpenComment \o <<"c">> \o CloseComment \o VarOf(<<"y">>),
               VarOf(<<" ">>) ,
               <<"t">> \o TagOf(<<"x">>),
               <<"t", "{", "%", "}">> }

\* A context is a set of entries [name, value].
Contexts ==
    {{[name |-> <<"x">>, value |-> x] : x \in xs} \cup {[name |-> <<"y">>, value |-> y] : y \in ys} :
        xs \in { {},
                 {PyString(<<"L", "i">>)},
                 {PyString(<<>>)},
                 {PyDict(<<"y">>, PyString(<<"L", "i">>))},
                 {PyList(<<PyString(<<"L", "i">>)>>)},
                 {PyList(<<PyString(<<"L", "i">>), PyString(<<"B", "o">>)>>)},
                 {PyObject(<<"y">>, PyString(<<"L", "i">>))} },
        ys \in { {}, {PyString(<<"B", "o">>)} }}

(***************************************************************************)
(* Parsing, then rendering: Parser::parse on the template, then one call   *)
(* of render per node of the tree it returned, in order.                   *)
(***************************************************************************)
InitRender ==
    /\ template \in RenderTemplates
    /\ rest = template
    /\ byte = 0
    /\ verbatim = NoVerbatim
    /\ tokens = <<>>
    /\ status = "running"
    /\ nodes = <<>>
    /\ result = [kind |-> "running"]
    /\ NoVariableLexer
    /\ context \in Contexts
    /\ rendered = <<>>
    /\ rstatus = "running"

\* render on the next node of the tree, a node of this type.
Render(type) ==
    /\ rstatus = "running"
    /\ result.kind = "Ok"
    /\ Len(rendered) < Len(result.nodes)
    /\ result.nodes[Len(rendered) + 1].type = type
    /\ IF render(resolve(template, result.nodes[Len(rendered) + 1], context)).panic
       THEN rstatus' = "panic" /\ UNCHANGED rendered
       ELSE /\ rendered' = Append(rendered,
               render(resolve(template, result.nodes[Len(rendered) + 1], context)).s)
            /\ UNCHANGED rstatus
    /\ UNCHANGED <<template, rest, byte, verbatim, tokens, status, nodes, result, context>>
    /\ UNCHANGED variable_lexer

RenderText ==
    /\ rstatus = "running"
    /\ Render("Text")

RenderVariable ==
    /\ rstatus = "running"
    /\ Render("Variable")

RenderFilter ==
    /\ rstatus = "running"
    /\ Render("Filter")

NextRender ==
    \/ ParseText \/ ParseComment \/ ParseVariable \/ ParseTag \/ ParseLexerAbort \/ ParseEnd
    \/ RenderText \/ RenderVariable \/ RenderFilter

SpecRender == InitRender /\ [][NextRender]_vars

(***************************************************************************)
(* Vocabulary of the properties, stated on the template text itself.       *)
(***************************************************************************)
Occurs(s, p) == \E i \in 0..(Len(s) - Len(p)) : SubSeq(s, i + 1, i + Len(p)) = p

SpanText(tok) == Slice(template, tok.at[1], tok.at[2])

RECURSIVE ConcatSpans(_)
ConcatSpans(toks) ==
    IF toks = <<>> THEN <<>> ELSE SpanText(Head(toks)) \o ConcatSpans(Tail(toks))

Opener(end_tag) ==
    CASE end_tag = "Variable" -> OpenVariable
      [] end_tag = "Tag" -> OpenTag
      [] end_tag = "Comment" -> OpenComment

\* s is one whole "{% ... %}" tag: no "%}" before its last two characters.
IsBlockTag(s) ==
    /\ Len(s) >= 4
    /\ StartsWith(s, OpenTag)
    /\ SubSeq(s, Len(s) - 1, Len(s)) = CloseTag
    /\ ~Occurs(SubSeq(s, 3, Len(s) - 1), CloseTag)

BlockInner(s) == SubSeq(s, 3, Len(s) - 2)

\* s is a tag that closes a verbatim block whose identifier is v.
IsCloserOf(s, v) ==
    /\ IsBlockTag(s)
    /\ Len(Trim(BlockInner(s))) >= 3
    /\ SubSeq(Trim(BlockInner(s)), 4, Len(Trim(BlockInner(s)))) = v

ContainsCloserOf(s, v) ==
    \E i \in 1..Len(s) : \E j \in i..Len(s) : IsCloserOf(SubSeq(s, i, j), v)

(***************************************************************************)
(* C1: the spans of the emitted tokens partition [0, len) in emission     *)
(* order: the first starts at 0, each starts where the previous one ended, *)
(* what is left to lex starts where the last one ended, and once next()    *)
(* has returned None the last span ends at len and the slices of the       *)
(* template at the spans concatenate to the template.                      *)
(***************************************************************************)
C1_SpansPartition ==
    /\ \A i \in 1..Len(tokens) :
          /\ tokens[i].at[1] = (IF i = 1 THEN 0 ELSE tokens[i - 1].at[2])
          /\ SliceOk(template, tokens[i].at[1], tokens[i].at[2])
    /\ byte = (IF tokens = <<>> THEN 0 ELSE Last(tokens).at[2])
    /\ ConcatSpans(tokens) \o rest = template
    /\ status = "done" =>
          /\ ConcatSpans(tokens) = template
          /\ (IF tokens = <<>> THEN Len(template) = 0 ELSE Last(tokens).at[2] = Len(template))

C1_Witness ==
    /\ status = "done"
    /\ Len(tokens) >= 3
    /\ \E i, j, k \in 1..Len(tokens) :
          tokens[i].type = "Text" /\ tokens[j].type = "Variable" /\ tokens[k].type = "Tag"

(***************************************************************************)
(* C2: no call of next() aborts, on any input, in Normal or verbatim mode. *)
(***************************************************************************)
C2_NeverAborts == status # "panic"

(***************************************************************************)
(* C6: in Normal mode, when the remaining input starts with an opener and  *)
(* its closing delimiter occurs nowhere in the remaining input, next()     *)
(* emits the whole remainder as one Text token, nothing is left to lex,    *)
(* and no call made with an empty remainder emits a token.                 *)
(***************************************************************************)
Unterminated ==
    /\ status = "running"
    /\ ~verbatim.some
    /\ \E e \in {"Variable", "Tag", "Comment"} :
          StartsWith(rest, Opener(e)) /\ ~Occurs(rest, EndStr(e))

C6_UnterminatedTag ==
    [][/\ Unterminated =>
            /\ tokens' = Append(tokens, Token("Text", rest, byte, Len(template)))
            /\ rest' = <<>>
            /\ status' = "running"
       /\ rest = <<>> => tokens' = tokens]_vars

C6_Witness ==
    /\ status = "done"
    /\ Len(tokens) >= 2
    /\ Last(tokens).type = "Text"
    /\ StartsWith(Last(tokens).content, OpenVariable)
    /\ Len(Last(tokens).content) >= 3
    /\ ~Occurs(Last(tokens).content, CloseVariable)

(***************************************************************************)
(* Verbatim vocabulary, on the text: what an opener is, and the template   *)
(* split into opener (ending at i), body, and closer (starting at j).      *)
(***************************************************************************)
IsVerbatimIdentifier(c) == c = VerbatimWord \/ StartsWith(c, VerbatimWord \o <<" ">>)

OpenerPart(i) == SubSeq(template, 1, i)
BodyPart(i, j) == SubSeq(template, i + 1, j)
CloserPart(j) == SubSeq(template, j + 1, Len(template))

IsVerbatimBlock(i, j) ==
    /\ IsBlockTag(OpenerPart(i))
    /\ IsVerbatimIdentifier(Trim(BlockInner(OpenerPart(i))))
    /\ IsCloserOf(CloserPart(j), Trim(BlockInner(OpenerPart(i))))
    /\ ~ContainsCloserOf(BodyPart(i, j), Trim(BlockInner(OpenerPart(i))))

BlockTokens(i, j) ==
    << Token("Tag", BlockInner(OpenerPart(i)), 0, i),
       Token("Text", BodyPart(i, j), i, j),
       Token("Tag", BlockInner(CloserPart(j)), j, Len(template)) >>

(***************************************************************************)
(* C7: a template that is a verbatim opener, a non-empty body without a    *)
(* matching closer, and the matching closer lexes to exactly Tag(opener),  *)
(* Text(body), Tag(closer): no call aborts and, once next() has returned   *)
(* None, the tokens emitted are exactly those three.                       *)
(***************************************************************************)
C7_VerbatimPassthrough ==
    \A i \in 4..Len(template) : \A j \in (i + 1)..(Len(template) - 4) :
        IsVerbatimBlock(i, j) =>
            /\ status # "panic"
            /\ status = "done" => tokens = BlockTokens(i, j)

(***************************************************************************)
(* C8: a step taken in verbatim mode with identifier V ends the block      *)
(* (emits the closer Tag directly, or emits the body Text and leaves the   *)
(* closer at the head of rest) only at a tag whose trimmed content from    *)
(* index 3 on is exactly V; every other tag is inside the emitted Text.    *)
(***************************************************************************)
C8_NamedVerbatim ==
    [][(status = "running" /\ verbatim.some /\ tokens' # tokens) =>
          LET tok == Last(tokens')
              k == IF tok.type = "Text" THEN Len(tok.content) ELSE 0
              closed == tok.type = "Tag" \/ rest' # <<>>
          IN /\ tok.type \in {"Text", "Tag"}
             /\ tok.type = "Text" => tok.content = SubSeq(rest, 1, k)
             /\ rest' = SubSeq(rest, Len(rest) - Len(rest') + 1, Len(rest))
             /\ closed =>
                   \E n \in (k + 4)..Len(rest) :
                       /\ IsCloserOf(SubSeq(rest, k + 1, n), verbatim.v)
                       /\ tok.type = "Tag" => tok.content = BlockInner(SubSeq(rest, 1, n))]_vars

C8_Witness ==
    \E i \in 1..(Len(tokens) - 2) :
        /\ tokens[i].type = "Tag"
        /\ Trim(tokens[i].content) = VerbatimWord \o <<" ", "s">>
        /\ tokens[i + 1].type = "Text"
        /\ Occurs(tokens[i + 1].content, TagOf(<<" ">> \o EndWord \o VerbatimWord \o <<" ">>))
        /\ tokens[i + 2].type = "Tag"
        /\ Trim(tokens[i + 2].content) = EndWord \o VerbatimWord \o <<" ", "s">>

(***************************************************************************)
(* C9: the lexer is in Normal or in Verbatim(identifier) and nothing else: *)
(* every step taken in verbatim mode that emits a token leaves the lexer   *)
(* in Normal mode, whatever openers the emitted text holds, and a closer   *)
(* tag lexed in Normal mode is a Tag token that leaves it in Normal mode.  *)
(***************************************************************************)
C9_NoDepthCounter ==
    [][/\ (status = "running" /\ verbatim.some /\ tokens' # tokens) => ~verbatim'.some
       /\ (status = "running" /\ ~verbatim.some /\ tokens' # tokens
              /\ Last(tokens').type = "Tag"
              /\ Len(Trim(Last(tokens').content)) >= 3
              /\ IsVerbatimIdentifier(SliceFrom(Trim(Last(tokens').content), 3)))
            => ~verbatim'.some
       /\ verbatim'.some =>
              (verbatim.some \/ (Last(tokens').type = "Tag"
                                  /\ verbatim'.v = Trim(Last(tokens').content)
                                  /\ IsVerbatimIdentifier(verbatim'.v)))]_vars

C9_Witness ==
    /\ status = "done"
    /\ \E i \in 1..(Len(tokens) - 3) :
        /\ tokens[i].type = "Tag"
        /\ Trim(tokens[i].content) = VerbatimWord
        /\ tokens[i + 1].type = "Text"
        /\ Occurs(tokens[i + 1].content, TagOf(<<" ">> \o VerbatimWord \o <<" ">>))
        /\ tokens[i + 2].type = "Tag"
        /\ Trim(tokens[i + 2].content) = EndWord \o VerbatimWord
        /\ tokens[i + 3].type = "Tag"
        /\ Trim(tokens[i + 3].content) = EndWord \o VerbatimWord

(***************************************************************************)
(* C10: in verbatim mode, when the non-empty remaining input holds no      *)
(* matching closer, next() emits the whole remainder as one Text token,    *)
(* nothing is left to lex, and the call does not abort.                    *)
(***************************************************************************)
C10_UnterminatedVerbatim ==
    [][(status = "running" /\ verbatim.some /\ rest # <<>>
          /\ ~ContainsCloserOf(rest, verbatim.v)) =>
            /\ status' = "running"
            /\ tokens' = Append(tokens, Token("Text", rest, byte, Len(template)))
            /\ rest' = <<>>]_vars

(***************************************************************************)
(* Vocabulary of the parser properties.                                    *)
(***************************************************************************)
IsNodeToken(tok) == tok.type # "Comment"

\* The tokens that give a node, in document order.
NodeTokens == SelectSeq(tokens, IsNodeToken)

ParseOf(tok) == parse_variable(template, tok.content, TokenAt(tok))

\* A construct that is not malformed.
WellFormed(tok) ==
    \/ tok.type \in {"Text", "Comment"}
    \/ tok.type = "Variable" /\ ParseOf(tok).kind = "Ok"

\* The items VariableLexer yields for a variable content, up to None.
RECURSIVE Items(_)
Items(l) ==
    LET r == VariableLexerNext(l)
    IN IF r.panic \/ r.item = <<>> THEN <<>> ELSE <<r.item[1]>> \o Items(r.lexer)

IsFilterItem(item) == item.ok /\ item.token_type = "Filter"

\* The filters of a chain, innermost first, and the node under them.
RECURSIVE ChainAts(_)
ChainAts(node) ==
    IF node.type = "Filter" THEN Append(ChainAts(node.left), node.at) ELSE <<>>

RECURSIVE ChainRoot(_)
ChainRoot(node) == IF node.type = "Filter" THEN ChainRoot(node.left) ELSE node

\* A variable tag alone in a template, as parse_variable sees it.
ParseAlone(content) ==
    parse_variable(VarOf(content), content, <<0, Len(content) + 4>>)

(***************************************************************************)
(* C3: parse returns Ok(nodes) or Err(error) and does not abort.           *)
(***************************************************************************)
C3_ParseTotal == result.kind \in {"running", "Ok", "Err"}

(***************************************************************************)
(* C4: parsing fails fast.  While parse runs and when it returns Ok, every *)
(* construct lexed so far is well formed.  When it returns an error, the   *)
(* error is that of the construct lexed last, every construct before it is *)
(* well formed, inside the tag the filters before the failing one parse on *)
(* their own, and the result carries the error alone, without nodes.       *)
(***************************************************************************)
C4_FailFast ==
    /\ result.kind \in {"running", "Ok"} =>
          \A i \in 1..Len(tokens) : WellFormed(tokens[i])
    /\ result.kind = "Err" =>
          /\ tokens # <<>>
          /\ Last(tokens).type = "Variable"
          /\ \A i \in 1..(Len(tokens) - 1) : WellFormed(tokens[i])
          /\ ParseOf(Last(tokens)).kind = "Err"
          /\ result = [kind |-> "Err", error |-> ParseOf(Last(tokens)).error,
                       at |-> ParseOf(Last(tokens)).at]
          /\ ParseOf(Last(tokens)).built >= 1 =>
                ParseAlone(Slice(Last(tokens).content, 0, ParseOf(Last(tokens)).pos - 1)).kind = "Ok"
          /\ nodes = <<>>

C4_Witness ==
    /\ result.kind = "Err"
    /\ Len(tokens) >= 2
    /\ rest # <<>>
    /\ ParseOf(Last(tokens)).built >= 1
    /\ result.error = "MissingArgument"

(***************************************************************************)
(* C5: the node of a variable tag with n filters is a chain of n Filter    *)
(* nodes: from the innermost to the outermost they are the filters of the  *)
(* tag from left to right, each has one child, its left, and the innermost *)
(* left is the Variable of the path.                                       *)
(***************************************************************************)
C5_LeftAssociative ==
    result.kind \in {"running", "Ok"} =>
        /\ Len(nodes) = Len(NodeTokens)
        /\ \A i \in 1..Len(nodes) :
              NodeTokens[i].type = "Variable" =>
                LET items == Items(VariableLexerNew(NodeTokens[i].content))
                    filters == SelectSeq(items, IsFilterItem)
                    base == NodeTokens[i].at[1] + START_TAG_LEN
                IN /\ ChainAts(nodes[i]) = [j \in 1..Len(filters) |-> SpanAt(filters[j].at, base)]
                   /\ ChainRoot(nodes[i]) = VariableNode(SpanAt(items[1].at, base))

C5_Witness ==
    /\ result.kind = "Ok"
    /\ \E i \in 1..Len(result.nodes) :
          /\ Len(ChainAts(result.nodes[i])) >= 2
          /\ result.nodes[i].filter.type = "Lower"
          /\ result.nodes[i].left.filter.type = "Default"
          /\ result.nodes[i].left.left.type = "Variable"

(***************************************************************************)
(* C11: the token stream is finite and makes progress.  Every call of      *)
(* next() that returns a token returns exactly one, its span is not empty  *)
(* and is the part of the remaining input the call consumed, so the        *)
(* remaining input strictly shrinks; a call with a non-empty remainder     *)
(* that does not abort returns a token; there are never more tokens than   *)
(* characters; a call with an empty remainder returns None, and after None *)
(* every call returns None and no token.                                   *)
(***************************************************************************)
C11_Progress ==
    [][/\ tokens' # tokens =>
            /\ tokens' = Append(tokens, Last(tokens'))
            /\ Last(tokens').at[2] > Last(tokens').at[1]
            /\ Len(rest') < Len(rest)
            /\ Len(rest) - Len(rest') = Last(tokens').at[2] - Last(tokens').at[1]
       /\ (status = "running" /\ rest # <<>> /\ status' = "running") => tokens' # tokens
       /\ Len(tokens') <= Len(template)
       /\ (status = "running" /\ rest = <<>>) => status' = "done"
       /\ status = "done" => (status' = "done" /\ tokens' = tokens /\ rest' = <<>>)]_vars

\* An empty verbatim body: the closer Tag directly follows the opener Tag.
C11_Witness ==
    /\ status = "done"
    /\ \E i \in 1..(Len(tokens) - 1) :
          /\ tokens[i].type = "Tag"
          /\ IsVerbatimIdentifier(Trim(tokens[i].content))
          /\ tokens[i + 1].type = "Tag"
          /\ IsCloserOf(SpanText(tokens[i + 1]), Trim(tokens[i].content))
    /\ \E i \in 1..Len(tokens) : tokens[i].type = "Text"

(***************************************************************************)
(* Vocabulary of the filter properties: the items of a variable tag, the   *)
(* filters among them, and the argument item that follows a filter.        *)
(***************************************************************************)
ItemsOf(tok) == Items(VariableLexerNew(tok.content))

BaseOf(tok) == tok.at[1] + START_TAG_LEN

\* The indices of the Filter items, in order.
FilterIdx(its) ==
    LET IsFilterAt(j) == IsFilterItem(its[j])
    IN SelectSeq([j \in 1..Len(its) |-> j], IsFilterAt)

\* Item j is a filter that was given an argument.
HasArgument(its, j) == j < Len(its) /\ its[j + 1].ok /\ its[j + 1].token_type # "Filter"

\* The argument of filter j lexed, or converted, with an error.
ArgumentFails(its, j, base) ==
    /\ j < Len(its)
    /\ \/ ~its[j + 1].ok
       \/ HasArgument(its, j) /\ ArgumentParse(ArgumentToken(its[j + 1], base)).kind # "Ok"

\* What precedes filter j in the tag, up to the "|" before its name.
Before(tok, its, j) == Slice(tok.content, 0, its[j].at[1] - 1)

\* The Filter nodes of a chain, innermost first.
RECURSIVE ChainNodes(_)
ChainNodes(node) ==
    IF node.type = "Filter" THEN Append(ChainNodes(node.left), node) ELSE <<>>

(***************************************************************************)
(* C12: arity of the built-in filters.  When everything before it in the   *)
(* tag parses, a filter named exactly default without an argument makes    *)
(* parse fail with MissingArgument at the span of the filter name, and a   *)
(* filter named exactly lower with an argument makes it fail with          *)
(* UnexpectedArgument at the span of the argument.  In a tree that was     *)
(* built, a filter named default is Default(argument) with the argument    *)
(* that followed it and a filter named lower is Lower.                     *)
(***************************************************************************)
C12_FilterArity ==
    /\ \A k \in 1..Len(tokens) :
          tokens[k].type = "Variable" =>
            LET its == ItemsOf(tokens[k])
                base == BaseOf(tokens[k])
            IN \A j \in 2..Len(its) :
                  (/\ IsFilterItem(its[j])
                   /\ ~ArgumentFails(its, j, base)
                   /\ ParseAlone(Before(tokens[k], its, j)).kind = "Ok") =>
                     /\ (its[j].content = DefaultName /\ ~HasArgument(its, j)) =>
                            result = [kind |-> "Err", error |-> "MissingArgument",
                                      at |-> SpanAt(its[j].at, base)]
                     /\ (its[j].content = LowerName /\ HasArgument(its, j)) =>
                            result = [kind |-> "Err", error |-> "UnexpectedArgument",
                                      at |-> SpanAt(its[j + 1].at, base)]
    /\ result.kind \in {"running", "Ok"} =>
          \A i \in 1..Len(nodes) :
             NodeTokens[i].type = "Variable" =>
               LET its == ItemsOf(NodeTokens[i])
                   base == BaseOf(NodeTokens[i])
                   chain == ChainNodes(nodes[i])
                   idx == FilterIdx(its)
               IN /\ Len(chain) = Len(idx)
                  /\ \A m \in 1..Len(chain) :
                        /\ its[idx[m]].content = DefaultName =>
                              /\ HasArgument(its, idx[m])
                              /\ chain[m].filter.type = "Default"
                              /\ Len(chain[m].filter.argument) = 1
                              /\ chain[m].filter.argument[1].at = SpanAt(its[idx[m] + 1].at, base)
                        /\ its[idx[m]].content = LowerName =>
                              /\ ~HasArgument(its, idx[m])
                              /\ chain[m].filter = [type |-> "Lower", argument |-> <<>>]

\* lower was given a quoted argument after a filter that parsed.
C12_Witness ==
    /\ result.kind = "Err"
    /\ result.error = "UnexpectedArgument"
    /\ SliceOk(template, result.at[1], result.at[1] + result.at[2])
    /\ Slice(template, result.at[1], result.at[1] + result.at[2]) = <<"'", "a", "'">>
    /\ ParseOf(Last(tokens)).built >= 1

(***************************************************************************)
(* C13: filter names are matched exactly.  In a tree that was built, every *)
(* filter whose name is not exactly default or lower (the empty name, a    *)
(* different case, a name with whitespace around it) is External and       *)
(* carries the argument that followed it, or none; and an arity error is   *)
(* only ever reported at a filter named exactly default (MissingArgument)  *)
(* or at the argument of a filter named exactly lower                      *)
(* (UnexpectedArgument).                                                   *)
(***************************************************************************)
C13_ExactNames ==
    /\ result.kind \in {"running", "Ok"} =>
          \A i \in 1..Len(nodes) :
             NodeTokens[i].type = "Variable" =>
               LET its == ItemsOf(NodeTokens[i])
                   base == BaseOf(NodeTokens[i])
                   chain == ChainNodes(nodes[i])
                   idx == FilterIdx(its)
               IN /\ Len(chain) = Len(idx)
                  /\ \A m \in 1..Len(chain) :
                        its[idx[m]].content \notin {DefaultName, LowerName} =>
                           /\ chain[m].filter.type = "External"
                           /\ chain[m].filter.argument =
                                 (IF HasArgument(its, idx[m])
                                  THEN <<ArgumentParse(ArgumentToken(its[idx[m] + 1], base)).node>>
                                  ELSE <<>>)
    /\ (result.kind = "Err" /\ result.error \in {"MissingArgument", "UnexpectedArgument"}) =>
          LET its == ItemsOf(Last(tokens))
              base == BaseOf(Last(tokens))
          IN \E j \in 2..Len(its) :
                /\ IsFilterItem(its[j])
                /\ \/ /\ result.error = "MissingArgument"
                      /\ its[j].content = DefaultName
                      /\ result.at = SpanAt(its[j].at, base)
                   \/ /\ result.error = "UnexpectedArgument"
                      /\ its[j].content = LowerName
                      /\ HasArgument(its, j)
                      /\ result.at = SpanAt(its[j + 1].at, base)

\* " lower" with an argument, "Default" and the empty name were built.
C13_Witness ==
    /\ result.kind = "Ok"
    /\ \E i \in 1..Len(result.nodes) :
          /\ result.nodes[i].type = "Filter"
          /\ result.nodes[i].filter.type = "External"
          /\ Len(result.nodes[i].filter.argument) = 1
          /\ Slice(template, result.nodes[i].at[1],
                   result.nodes[i].at[1] + result.nodes[i].at[2]) = <<" ">> \o LowerName
    /\ \E i \in 1..Len(result.nodes) :
          /\ result.nodes[i].type = "Filter"
          /\ result.nodes[i].left.type = "Filter"
          /\ result.nodes[i].left.filter.type = "External"
          /\ result.nodes[i].left.at[2] = 0

(***************************************************************************)
(* Numeric literals, stated on the text: an integer literal is a non-empty *)
(* run of digits; a floating literal is digits, an optional "." with       *)
(* digits, and an optional "e" with at least one digit, with a digit       *)
(* somewhere in the mantissa.                                              *)
(***************************************************************************)
Digits(s) == \A i \in 1..Len(s) : IsDigit(s[i])

IntegerLiteral(s) == s # <<>> /\ Digits(s)

FloatLiteral(s) ==
    \E a \in 0..Len(s) : \E b \in a..Len(s) :
        LET int == SubSeq(s, 1, a)
            point == SubSeq(s, a + 1, b)
            exponent == SubSeq(s, b + 1, Len(s))
        IN /\ Digits(int)
           /\ point = <<>> \/ (Head(point) = "." /\ Digits(Tail(point)))
           /\ int # <<>> \/ Len(point) >= 2
           /\ exponent = <<>> \/ (Head(exponent) = "e" /\ Len(exponent) >= 2
                                    /\ Digits(Tail(exponent)))

\* Item j is a filter whose argument is a numeric token.
HasNumeric(its, j) == HasArgument(its, j) /\ its[j + 1].token_type = "Numeric"

(***************************************************************************)
(* C14: numeric arguments.  A numeric token is a run of digits, "." and    *)
(* "e" that starts with a digit.  In a tree that was built, the argument   *)
(* made from it is Int with exactly its digits when it is an integer       *)
(* literal, and otherwise it is a floating literal and the argument is     *)
(* Float of that literal.  When it is neither and everything before its    *)
(* filter parses, parse fails with InvalidNumber at the token's span; and  *)
(* InvalidNumber is reported for no other reason.                          *)
(***************************************************************************)
C14_NumericArguments ==
    /\ \A k \in 1..Len(tokens) :
          tokens[k].type = "Variable" =>
            LET its == ItemsOf(tokens[k])
                base == BaseOf(tokens[k])
            IN \A j \in 2..Len(its) :
                  (IsFilterItem(its[j]) /\ HasNumeric(its, j)) =>
                     LET c == its[j + 1].content
                     IN /\ IsDigit(Head(c))
                        /\ \A n \in 1..Len(c) : IsDigit(c[n]) \/ c[n] \in {".", "e"}
                        /\ (/\ ~IntegerLiteral(c)
                            /\ ~FloatLiteral(c)
                            /\ ParseAlone(Before(tokens[k], its, j)).kind = "Ok") =>
                              result = [kind |-> "Err", error |-> "InvalidNumber",
                                        at |-> SpanAt(its[j + 1].at, base)]
    /\ result.kind \in {"running", "Ok"} =>
          \A i \in 1..Len(nodes) :
             NodeTokens[i].type = "Variable" =>
               LET its == ItemsOf(NodeTokens[i])
                   chain == ChainNodes(nodes[i])
                   idx == FilterIdx(its)
               IN /\ Len(chain) = Len(idx)
                  /\ \A m \in 1..Len(chain) :
                        HasNumeric(its, idx[m]) =>
                           LET c == its[idx[m] + 1].content
                               argument == chain[m].filter.argument[1].argument_type
                           IN IF IntegerLiteral(c)
                              THEN argument = [type |-> "Int", digits |-> c]
                              ELSE FloatLiteral(c) /\ argument = [type |-> "Float", literal |-> c]
    /\ (result.kind = "Err" /\ result.error = "InvalidNumber") =>
          LET its == ItemsOf(Last(tokens))
              base == BaseOf(Last(tokens))
          IN \E j \in 2..Len(its) :
                /\ IsFilterItem(its[j])
                /\ HasNumeric(its, j)
                /\ ~IntegerLiteral(its[j + 1].content)
                /\ ~FloatLiteral(its[j + 1].content)
                /\ result.at = SpanAt(its[j + 1].at, base)

\* 999 became Int and 5.2e3 became Float.
C14_Witness ==
    /\ result.kind = "Ok"
    /\ \E i \in 1..Len(result.nodes) :
          /\ result.nodes[i].type = "Filter"
          /\ Len(result.nodes[i].filter.argument) = 1
          /\ result.nodes[i].filter.argument[1].argument_type =
                [type |-> "Int", digits |-> <<"9", "9", "9">>]
    /\ \E i \in 1..Len(result.nodes) :
          /\ result.nodes[i].type = "Filter"
          /\ Len(result.nodes[i].filter.argument) = 1
          /\ result.nodes[i].filter.argument[1].argument_type =
                [type |-> "Float", literal |-> <<"5", ".", "2", "e", "3">>]

(***************************************************************************)
(* C15: a Variable token whose content is empty or only whitespace gives   *)
(* no expression token, and parse fails with EmptyVariable at a span that  *)
(* starts at the "{{" and covers the construct up to and including the     *)
(* "}}"; EmptyVariable is reported for no other content.                   *)
(***************************************************************************)
C15_EmptyVariable ==
    /\ \A k \in 1..Len(tokens) :
          (tokens[k].type = "Variable" /\ Trim(tokens[k].content) = <<>>) =>
             /\ VariableLexerNext(VariableLexerNew(tokens[k].content)) =
                   VNone(VariableLexerNew(tokens[k].content))
             /\ k = Len(tokens)
             /\ result.kind = "Err"
             /\ result.error = "EmptyVariable"
             /\ result.at[1] = tokens[k].at[1]
             /\ SliceOk(template, result.at[1], result.at[1] + result.at[2])
             /\ Slice(template, result.at[1], result.at[1] + result.at[2]) =
                   VarOf(tokens[k].content)
    /\ (result.kind = "Err" /\ result.error = "EmptyVariable") =>
          Trim(Last(tokens).content) = <<>>

\* "{{ }}" after another construct.
C15_Witness ==
    /\ result.kind = "Err"
    /\ result.error = "EmptyVariable"
    /\ result.at[1] >= 1
    /\ Last(tokens).content = <<" ">>

(***************************************************************************)
(* C16: while parse runs, and when it returns Ok, the node list holds one  *)
(* node per Text or Variable token lexed, in the order of the tokens, and  *)
(* none for a Comment token.  The node of a Text token is a Text over the  *)
(* token's span; the node of a Variable token is a Variable or Filter      *)
(* whose path lies between the token's delimiters.  Ok is returned when    *)
(* nothing is left to lex, with that list.                                 *)
(***************************************************************************)
C16_NodePerToken ==
    /\ result.kind \in {"running", "Ok"} =>
          /\ Len(nodes) = Len(NodeTokens)
          /\ \A i \in 1..Len(nodes) :
                /\ NodeTokens[i].type \in {"Text", "Variable"}
                /\ NodeTokens[i].type = "Text" =>
                      /\ nodes[i].type = "Text"
                      /\ nodes[i].at[1] = NodeTokens[i].at[1]
                      /\ nodes[i].at[1] + nodes[i].at[2] = NodeTokens[i].at[2]
                /\ NodeTokens[i].type = "Variable" =>
                      /\ nodes[i].type \in {"Variable", "Filter"}
                      /\ ChainRoot(nodes[i]).type = "Variable"
                      /\ ChainRoot(nodes[i]).at[1] >= NodeTokens[i].at[1] + START_TAG_LEN
                      /\ ChainRoot(nodes[i]).at[1] + ChainRoot(nodes[i]).at[2]
                            <= NodeTokens[i].at[2] - END_TAG_LEN
    /\ result.kind = "Ok" =>
          /\ rest = <<>>
          /\ result.nodes = nodes

\* A comment, then a variable: one node.
C16_Witness ==
    /\ result.kind = "Ok"
    /\ Len(tokens) = 2
    /\ tokens[1].type = "Comment"
    /\ tokens[2].type = "Variable"
    /\ Len(result.nodes) = 1

(***************************************************************************)
(* Slicing the template as the accessors of parse.rs do: at is (start,     *)
(* len) and the slice is template[start..start + len].                     *)
(***************************************************************************)
InBounds(at) == SliceOk(template, at[1], at[1] + at[2])

ContentAt(at) == Slice(template, at[1], at[1] + at[2])

\* The text of a string argument whose content is c: c between two quotes
\* of the same kind, and inside "_(" and ")" when translated.
Quoted(c) == {<<q>> \o c \o <<q>> : q \in {"'", "\""}}

Translated(c) == {<<"_", "(">> \o s \o <<")">> : s \in Quoted(c)}

\* The argument node a was built from the argument item and reads its text.
ArgumentReads(a, item) ==
    /\ InBounds(a.at)
    /\ a.argument_type.type = "Variable" =>
          /\ InBounds(a.argument_type.variable.at)
          /\ ContentAt(a.argument_type.variable.at) = item.content
    /\ a.argument_type.type \in {"Text", "TranslatedText"} =>
          /\ InBounds(a.argument_type.text.at)
          /\ ContentAt(a.argument_type.text.at) = item.content
    /\ a.argument_type.type = "Text" => ContentAt(a.at) \in Quoted(item.content)
    /\ a.argument_type.type = "TranslatedText" => ContentAt(a.at) \in Translated(item.content)
    /\ a.argument_type.type \in {"Int", "Float"} => ContentAt(a.at) = item.content

(***************************************************************************)
(* C17: spans are absolute and sliceable.  In every tree built, from a     *)
(* template whose constructs stand at any offset, every span lies inside   *)
(* the template and slicing the template at it gives the text of the token *)
(* the node was built from: the text of a Text token, the path of a        *)
(* Variable, the name of a Filter, the argument's own text for a variable  *)
(* or numeric argument, and for a string or translated string the text     *)
(* between the quotes, the argument's span being that text within its      *)
(* quotes (and translation marker).                                        *)
(***************************************************************************)
C17_SpansSliceable ==
    result.kind \in {"running", "Ok"} =>
       /\ Len(nodes) = Len(NodeTokens)
       /\ \A i \in 1..Len(nodes) :
             /\ NodeTokens[i].type = "Text" =>
                   /\ InBounds(nodes[i].at)
                   /\ ContentAt(nodes[i].at) = NodeTokens[i].content
             /\ NodeTokens[i].type = "Variable" =>
                   LET its == ItemsOf(NodeTokens[i])
                       chain == ChainNodes(nodes[i])
                       idx == FilterIdx(its)
                   IN /\ InBounds(ChainRoot(nodes[i]).at)
                      /\ ContentAt(ChainRoot(nodes[i]).at) = its[1].content
                      /\ Len(chain) = Len(idx)
                      /\ \A m \in 1..Len(chain) :
                            /\ InBounds(chain[m].at)
                            /\ ContentAt(chain[m].at) = its[idx[m]].content
                            /\ Len(chain[m].filter.argument) =
                                  (IF HasArgument(its, idx[m]) THEN 1 ELSE 0)
                            /\ HasArgument(its, idx[m]) =>
                                  ArgumentReads(chain[m].filter.argument[1], its[idx[m] + 1])

(***************************************************************************)
(* C18: no Variable with an empty path is in a tree that was built: the    *)
(* Variable under every filter chain and the Variable of every variable    *)
(* argument has a span of at least one character.                          *)
(***************************************************************************)
C18_NoEmptyPath ==
    result.kind \in {"running", "Ok"} =>
       \A i \in 1..Len(nodes) :
          /\ ChainRoot(nodes[i]).type = "Variable" => ChainRoot(nodes[i]).at[2] >= 1
          /\ \A m \in 1..Len(ChainNodes(nodes[i])) :
                LET argument == ChainNodes(nodes[i])[m].filter.argument
                IN (argument # <<>> /\ argument[1].argument_type.type = "Variable") =>
                      argument[1].argument_type.variable.at[2] >= 1

(***************************************************************************)
(* Vocabulary of the expression lexer properties.                          *)
(***************************************************************************)
\* An item that is not a filter name: an argument token or an error.
IsArgumentItem(item) == ~item.ok \/ item.token_type # "Filter"

\* The character of the content that follows the span of an item.
EndedBy(item, c) == item.at[2] < Len(vcontent) /\ vcontent[item.at[2] + 1] = c

(***************************************************************************)
(* C19: order of the expression tokens.  A content that is not empty gives *)
(* a first item, which is a Variable token; the lexer is in Variable mode  *)
(* only before it; every later item is a Filter token or an argument item  *)
(* (an argument token or an error), and an argument item directly follows  *)
(* a Filter token whose name was ended by ":", so that no two argument     *)
(* items follow each other.                                                *)
(***************************************************************************)
C19_TokenOrder ==
    /\ vitems # <<>> => (vitems[1].ok /\ vitems[1].token_type = "Variable")
    /\ (vstatus = "done" /\ Trim(vcontent) # <<>>) => vitems # <<>>
    /\ (vstatus # "idle" /\ vlexer.mode = "Variable") => vitems = <<>>
    /\ \A i \in 2..Len(vitems) :
          IsArgumentItem(vitems[i]) =>
             /\ IsFilterItem(vitems[i - 1])
             /\ i >= 3
             /\ EndedBy(vitems[i - 1], ":")

(***************************************************************************)
(* C20: the split between filter name and argument.  A call of next() in   *)
(* Filter mode with a non-empty remainder r returns a Filter token that    *)
(* starts where r starts.  With neither "|" nor ":" in r the name is r,    *)
(* nothing is left and the mode stays Filter.  With a ":" in r and no "|"  *)
(* before it, the name is what precedes the first ":", what follows it is  *)
(* left, and the mode becomes Argument.  Otherwise the name is what        *)
(* precedes the first "|", what follows it is left, and the mode stays     *)
(* Filter.                                                                 *)
(***************************************************************************)
FirstOf(r, c) == CHOOSE i \in 1..Len(r) : r[i] = c /\ \A j \in 1..(i - 1) : r[j] # c

Has(r, c) == \E i \in 1..Len(r) : r[i] = c

FilterStep(name, left, mode) ==
    /\ vstatus' = "running"
    /\ vitems' = Append(vitems, VariableToken("Filter", name, vlexer.byte,
                                               vlexer.byte + Len(name)))
    /\ vlexer'.rest = left
    /\ vlexer'.mode = mode

C20_FilterSplit ==
    [][(vstatus = "running" /\ vlexer.mode = "Filter" /\ vlexer.rest # <<>>) =>
          LET r == vlexer.rest
          IN IF ~Has(r, "|") /\ ~Has(r, ":")
             THEN FilterStep(r, <<>>, "Filter")
             ELSE IF Has(r, ":") /\ (~Has(r, "|") \/ FirstOf(r, ":") < FirstOf(r, "|"))
             THEN FilterStep(SubSeq(r, 1, FirstOf(r, ":") - 1),
                             SubSeq(r, FirstOf(r, ":") + 1, Len(r)), "Argument")
             ELSE FilterStep(SubSeq(r, 1, FirstOf(r, "|") - 1),
                             SubSeq(r, FirstOf(r, "|") + 1, Len(r)), "Filter")]_vars

\* A name ended by "|" with a ":" further on, then a name ended by ":".
C20_Witness ==
    /\ vstatus = "done"
    /\ \E i \in 2..Len(vitems) : \E j \in (i + 1)..Len(vitems) :
          /\ IsFilterItem(vitems[i])
          /\ EndedBy(vitems[i], "|")
          /\ IsFilterItem(vitems[j])
          /\ EndedBy(vitems[j], ":")
          /\ vitems[j].content # <<>>
    /\ IsFilterItem(Last(vitems))

(***************************************************************************)
(* Vocabulary of the argument claims.  An argument call is a call of       *)
(* next() in Argument mode with a non-empty remainder r; positions in r    *)
(* are counted from 1.  ClosingQuote(r, i, q) is the position of the first *)
(* q at or after i that no backslash escapes, 0 when there is none.        *)
(***************************************************************************)
ArgumentCall == vstatus = "running" /\ vlexer.mode = "Argument" /\ vlexer.rest # <<>>

IsQuote(c) == c \in {"'", "\""}

RECURSIVE ClosingQuote(_, _, _)
ClosingQuote(r, i, q) ==
    IF i > Len(r) THEN 0
    ELSE IF r[i] = "\\" THEN ClosingQuote(r, i + 2, q)
    ELSE IF r[i] = q THEN i
    ELSE ClosingQuote(r, i + 1, q)

\* What follows position k of r up to the next "|", or to the end.
RemainderAfter(r, k) ==
    LET after == SubSeq(r, k + 1, Len(r))
    IN IF Has(after, "|") THEN SubSeq(after, 1, FirstOf(after, "|") - 1) ELSE after

\* What is left of r once the argument ending at k and its remainder are read.
LeftAfter(r, k) ==
    LET after == SubSeq(r, k + 1, Len(r))
    IN IF Has(after, "|") THEN SubSeq(after, FirstOf(after, "|") + 1, Len(after)) ELSE <<>>

Blank(s) == \A i \in 1..Len(s) : IsWhitespace(s[i])

\* The call returned one item and did not abort.
Yielded == vstatus' = "running" /\ Len(vitems') = Len(vitems) + 1

(***************************************************************************)
(* C21: string arguments with escapes.  An argument call whose remainder   *)
(* starts with a quote q, has its first unescaped q at k and a backslash   *)
(* before k, returns the Text token with the content between the quotes    *)
(* and the span from the opening quote through position k when only        *)
(* whitespace follows up to the next "|", and leaves what follows that     *)
(* "|"; otherwise the item is InvalidRemainder starting after position k.  *)
(***************************************************************************)
C21_EscapedStrings ==
    [][(/\ ArgumentCall
        /\ IsQuote(Head(vlexer.rest))
        /\ ClosingQuote(vlexer.rest, 2, Head(vlexer.rest)) # 0
        /\ Has(SubSeq(vlexer.rest, 2, ClosingQuote(vlexer.rest, 2, Head(vlexer.rest))), "\\"))
       => LET r == vlexer.rest
              k == ClosingQuote(r, 2, Head(r))
          IN /\ Yielded
             /\ IF Blank(RemainderAfter(r, k))
                THEN /\ Last(vitems') = VariableToken("Text", SubSeq(r, 2, k - 1),
                                                      vlexer.byte, vlexer.byte + k)
                     /\ vlexer'.rest = LeftAfter(r, k)
                ELSE /\ ~Last(vitems').ok
                     /\ Last(vitems').error = "InvalidRemainder"
                     /\ Last(vitems').at[1] = vlexer.byte + k]_vars

(***************************************************************************)
(* C22: unterminated string literal.  An argument call whose remainder is  *)
(* a quote q, or "_(" and a quote q, with no unescaped q after it returns  *)
(* the IncompleteString error from the opening quote to the end of the     *)
(* trimmed content, and empties the remainder.                             *)
(***************************************************************************)
\* Position in r of the quote that opens the string argument, 0 if none.
OpeningQuote(r) ==
    IF IsQuote(Head(r)) THEN 1
    ELSE IF Len(r) >= 3 /\ r[1] = "_" /\ r[2] = "(" /\ IsQuote(r[3]) THEN 3
    ELSE 0

C22_IncompleteString ==
    [][(/\ ArgumentCall
        /\ OpeningQuote(vlexer.rest) # 0
        /\ ClosingQuote(vlexer.rest, OpeningQuote(vlexer.rest) + 1,
                        vlexer.rest[OpeningQuote(vlexer.rest)]) = 0)
       => /\ Yielded
          /\ Last(vitems') =
                VariableLexerError("IncompleteString",
                                   vlexer.byte + OpeningQuote(vlexer.rest) - 1,
                                   vlexer.byte + Len(vlexer.rest))
          /\ vlexer.byte + Len(vlexer.rest) = Len(TrimEnd(vcontent))
          /\ vlexer'.rest = <<>>]_vars

(***************************************************************************)
(* C23: translated-string arguments.  An argument call whose remainder r   *)
(* starts with "_(" returns MissingTranslatedString over "_(" when r ends  *)
(* there and over all of r when a character that is no quote follows.      *)
(* When a quoted string closed at k follows and r[k + 1] is ")", it        *)
(* returns TranslatedText with the string's content over "_" through ")"   *)
(* (InvalidRemainder when more than whitespace follows up to the next      *)
(* "|"); when r[k + 1] is not ")" it returns IncompleteTranslatedString    *)
(* from "_" to the closing quote.  The unclosed string is C22's case.      *)
(***************************************************************************)
IsTranslated(r) == Len(r) >= 2 /\ r[1] = "_" /\ r[2] = "("

TranslatedOutcome(r, k) ==
    IF k < Len(r) /\ r[k + 1] = ")"
    THEN IF Blank(RemainderAfter(r, k + 1))
         THEN /\ Last(vitems') = VariableToken("TranslatedText", SubSeq(r, 4, k - 1),
                                               vlexer.byte, vlexer.byte + k + 1)
              /\ vlexer'.rest = LeftAfter(r, k + 1)
         ELSE /\ ~Last(vitems').ok
              /\ Last(vitems').error = "InvalidRemainder"
              /\ Last(vitems').at[1] = vlexer.byte + k + 1
    ELSE /\ Last(vitems') = VariableLexerError("IncompleteTranslatedString",
                                               vlexer.byte, vlexer.byte + k)
         /\ vlexer'.rest = <<>>

C23_TranslatedText ==
    [][(ArgumentCall /\ IsTranslated(vlexer.rest))
       => LET r == vlexer.rest
          IN IF Len(r) = 2
             THEN /\ Yielded
                  /\ Last(vitems') = VariableLexerError("MissingTranslatedString",
                                                        vlexer.byte, vlexer.byte + 2)
             ELSE IF ~IsQuote(r[3])
             THEN /\ Yielded
                  /\ Last(vitems') = VariableLexerError("MissingTranslatedString",
                                                        vlexer.byte, vlexer.byte + Len(r))
             ELSE ClosingQuote(r, 4, r[3]) # 0
                     => (Yielded /\ TranslatedOutcome(r, ClosingQuote(r, 4, r[3])))]_vars

(***************************************************************************)
(* C24: leading underscore.  An argument call whose remainder starts with  *)
(* "_" not followed by "(" returns the LeadingUnderscore error from the    *)
(* "_" to the first whitespace character after it, or to the end of the    *)
(* content when there is none, and empties the remainder.                  *)
(***************************************************************************)
C24_LeadingUnderscore ==
    [][(/\ ArgumentCall
        /\ Head(vlexer.rest) = "_"
        /\ ~IsTranslated(vlexer.rest))
       => LET r == vlexer.rest
              ws == {i \in 1..Len(r) : IsWhitespace(r[i])}
              stop == IF ws = {} THEN Len(r)
                      ELSE (CHOOSE i \in ws : \A j \in ws : i <= j) - 1
          IN /\ Yielded
             /\ Last(vitems') = VariableLexerError("LeadingUnderscore",
                                                   vlexer.byte, vlexer.byte + stop)
             /\ vlexer'.rest = <<>>]_vars

\* The error stops at a whitespace character inside the content.
C24_Witness ==
    /\ vitems # <<>>
    /\ ~Last(vitems).ok
    /\ Last(vitems).error = "LeadingUnderscore"
    /\ Last(vitems).at[1] + 1 < Last(vitems).at[2]
    /\ Last(vitems).at[2] < Len(TrimEnd(vcontent))

(***************************************************************************)
(* C25: invalid remainder.  ArgumentLexed is what the string, translated   *)
(* or numeric arm returned before the remainder check.  When that is a     *)
(* token ending at e, the text of the content from e to the next "|" (to   *)
(* the end without one) decides the item of the call: the token itself     *)
(* when that text is whitespace only, what follows the "|" being left to   *)
(* lex; the InvalidRemainder error over exactly that text otherwise,       *)
(* nothing being left.                                                     *)
(***************************************************************************)
ChecksRemainder(r) == IsTranslated(r) \/ IsQuote(Head(r)) \/ IsDigit(Head(r))

ArgumentLexed(l) ==
    IF IsTranslated(l.rest) THEN lex_translated([l EXCEPT !.mode = "Filter"], Tail(Tail(l.rest)))
    ELSE IF IsQuote(Head(l.rest))
    THEN variable_lex_text([l EXCEPT !.mode = "Filter"], Tail(l.rest), Head(l.rest), 1)
    ELSE lex_numeric([l EXCEPT !.mode = "Filter"])

LexedToken(l) == ~ArgumentLexed(l).panic /\ ArgumentLexed(l).item[1].ok

RemainderOutcome(token, all) ==
    LET e == token.at[2]
    IN /\ Yielded
       /\ IF Blank(RemainderAfter(all, e))
          THEN /\ Last(vitems') = token
               /\ vlexer'.rest = LeftAfter(all, e)
          ELSE /\ Last(vitems') = VariableLexerError("InvalidRemainder", e,
                                                     e + Len(RemainderAfter(all, e)))
               /\ vlexer'.rest = <<>>

C25_InvalidRemainder ==
    [][(ArgumentCall /\ ChecksRemainder(vlexer.rest) /\ LexedToken(vlexer))
       => RemainderOutcome(ArgumentLexed(vlexer).item[1], TrimEnd(vcontent))]_vars

\* The error stops at a "|" and nothing after it is lexed.
C25_Witness ==
    /\ vstatus = "done"
    /\ vitems # <<>>
    /\ ~Last(vitems).ok
    /\ Last(vitems).error = "InvalidRemainder"
    /\ Last(vitems).at[1] < Last(vitems).at[2]
    /\ Last(vitems).at[2] < Len(TrimEnd(vcontent))
    /\ TrimEnd(vcontent)[Last(vitems).at[2] + 1] = "|"

(***************************************************************************)
(* C26: the expression lexer stops at its first error.  An Err item is the *)
(* last item of the sequence and leaves the remainder empty, so that every *)
(* later call of next() returns None.                                      *)
(***************************************************************************)
C26_StopsAtFirstError ==
    \A i \in 1..Len(vitems) :
       ~vitems[i].ok =>
          /\ i = Len(vitems)
          /\ vlexer.rest = <<>>
          /\ vstatus \in {"running", "done"}

\* An error before a "|" with content after it, and next() has returned None.
C26_Witness ==
    /\ vstatus = "done"
    /\ Len(vitems) >= 3
    /\ ~Last(vitems).ok
    /\ Last(vitems).error \in {"InvalidRemainder", "IncompleteTranslatedString"}
    /\ Last(vitems).at[2] + 1 < Len(TrimEnd(vcontent))
    /\ TrimEnd(vcontent)[Last(vitems).at[2] + 1] = "|"

(***************************************************************************)
(* C29: the expression lexer never aborts.  No call of next() ends in an   *)
(* out-of-range slice or a failed unwrap, and lexing a string literal      *)
(* changes no other lexer state: the mode is Argument only when the last   *)
(* item returned is a Filter token.                                        *)
(***************************************************************************)
C29_NeverAborts ==
    /\ vstatus # "panic"
    /\ (vstatus # "idle" /\ vlexer.mode = "Argument") =>
          (vitems # <<>> /\ IsFilterItem(Last(vitems)))

(***************************************************************************)
(* C28: the closer check ignores the first three characters.  In verbatim  *)
(* mode with identifier V, take the first "{%" of the remaining input and  *)
(* the first "%}" after it.  When the trimmed content between them is any  *)
(* three characters followed by exactly V, the call ends the block there:  *)
(* it returns that tag when nothing precedes it and the preceding text     *)
(* otherwise, and leaves the lexer in Normal mode.  When the trimmed       *)
(* content is shorter than three characters the call does not end the      *)
(* block there: a token it returns is a Text that runs past that tag.      *)
(***************************************************************************)
FirstAt(r, pat, from) ==
    LET at == {i \in from..(Len(r) - 1) : SubSeq(r, i, i + 1) = pat}
    IN IF at = {} THEN 0 ELSE CHOOSE i \in at : \A j \in at : i <= j

\* The first tag of r runs from FirstOpen(r) to FirstClose(r) + 1.
FirstOpen(r) == FirstAt(r, OpenTag, 1)
FirstClose(r) == IF FirstOpen(r) = 0 THEN 0 ELSE FirstAt(r, CloseTag, FirstOpen(r) + 2)
FirstInner(r) == Trim(SubSeq(r, FirstOpen(r) + 2, FirstClose(r) - 1))

HasFirstTag(r) ==
    /\ FirstOpen(r) # 0
    /\ FirstClose(r) # 0
    /\ FirstAt(r, CloseTag, FirstOpen(r)) = FirstClose(r)

ClosesAt(r, p, q) ==
    /\ status' = "running"
    /\ ~verbatim'.some
    /\ tokens' # tokens
    /\ IF p = 1
       THEN /\ Last(tokens') = Token("Tag", SubSeq(r, 3, q - 1), byte, byte + q + 1)
            /\ rest' = SubSeq(r, q + 2, Len(r))
       ELSE /\ Last(tokens') = Token("Text", SubSeq(r, 1, p - 1), byte, byte + p - 1)
            /\ rest' = SubSeq(r, p, Len(r))

NextNode == result.nodes[Len(rendered) + 1]

RenderCall(type) ==
    /\ rstatus = "running"
    /\ result.kind = "Ok"
    /\ Len(rendered) < Len(result.nodes)
    /\ NextNode.type = type

IsDefault(node) ==
    /\ node.filter.type = "Default"
    /\ node.filter.argument[1].argument_type.type \in {"Text", "Int", "Float", "Variable"}

Returns(string) == rstatus' = "running" /\ rendered' = Append(rendered, string)

C27_DefaultFilter ==
    [][(RenderCall("Filter") /\ IsDefault(NextNode)) =>
          IF resolve(template, NextNode.left, context).kind = "Some"
          THEN Returns(content_render(resolve(template, NextNode.left, context).content))
          ELSE Returns(render(resolve_argument(template, NextNode.filter.argument[1],
                                               context)).s)]_vars

(***************************************************************************)
(* C30: rendering is total on parsed trees.  No call of render on a node   *)
(* of a tree Parser::parse returned aborts, and a variable whose first     *)
(* segment is not in the context renders as the empty string.              *)
(***************************************************************************)
FirstSegment(node) == Head(Split(SubSeq(template, node.at[1] + 1, node.at[1] + node.at[2])))

C30_RenderTotal ==
    /\ rstatus # "panic"
    /\ \A i \in 1..Len(rendered) :
          (/\ result.nodes[i].type = "Variable"
           /\ \A e \in context : e.name # FirstSegment(result.nodes[i]))
             => rendered[i] = <<>>

====
